---- MODULE Spec2Model ----
(***************************************************************************)
(* A model of janus: the Source -> Generated -> Staged -> Deployed         *)
(* pipeline, its persisted State store, and the sync (reverse-merge)       *)
(* engine.                                                                 *)
(*                                                                         *)
(* Paths are records [dir, name]: dir is the sequence of directory         *)
(* segments, name the file name split at its dots, so that                 *)
(* Path::with_extension and expand_tilde are computed, not assumed.        *)
(* "x.conf" is <<"x","conf">>, ".bashrc" is <<"","bashrc">>,               *)
(* "x..janus.tmp" is <<"x","","janus","tmp">>.                             *)
(***************************************************************************)
EXTENDS Integers, Sequences, FiniteSets, TLC

VARIABLES cfg, fs, disk, run, st, faults, hist, sy

vars == <<cfg, fs, disk, run, st, faults, hist, sy>>

(***************************************************************************)
(* Bounds of the model.                                                    *)
(***************************************************************************)
MaxRuns == 1
MaxFaults == 2
MaxTamper == 1
MaxTimeout == 3

(***************************************************************************)
(* Generic helpers.                                                        *)
(***************************************************************************)
Range(s) == {s[i] : i \in 1..Len(s)}

Front(s) == SubSeq(s, 1, Len(s) - 1)

Last(s) == s[Len(s)]

(***************************************************************************)
(* Paths (std::path::Path as used by the program).                         *)
(***************************************************************************)
P(dir, name) == [dir |-> dir, name |-> name]

Home == <<"home", "u">>

DotfilesDir == Home \o <<"dotfiles">>

StagedDir == DotfilesDir \o <<".staged">>

GeneratedDir == DotfilesDir \o <<".generated">>

\* paths::expand_tilde: "~/rest" becomes home.join(rest); anything else is
\* returned unchanged.
expand_tilde(p) ==
    IF p.dir # <<>> /\ Head(p.dir) = "~"
    THEN [p EXCEPT !.dir = Home \o Tail(p.dir)]
    ELSE p

\* Path::extension: the part after the last dot of the file name; none when
\* the name has no dot, or only a leading one.
HasExtension(p) ==
    /\ Len(p.name) >= 2
    /\ ~(Len(p.name) = 2 /\ p.name[1] = "")

extension(p) == IF HasExtension(p) THEN Last(p.name) ELSE ""

file_stem(p) == IF HasExtension(p) THEN Front(p.name) ELSE p.name

\* Path::with_extension(ext): the stem, then "." and ext when ext is not
\* empty.  ext is given split at its dots: ".janus.tmp" is
\* <<"","janus","tmp">>.
with_extension(p, ext) ==
    [p EXCEPT !.name = IF ext = <<>> THEN file_stem(p) ELSE file_stem(p) \o ext]

\* deploy.rs / undeploy.rs: target_path.with_extension(".janus.tmp")
temp_path_for(p) == with_extension(p, <<"", "janus", "tmp">>)

\* deploy.rs backup_path_for: with_extension(format!("{}.janus.bak", ext))
backup_path_for(p) == with_extension(p, <<extension(p), "janus", "bak">>)

staged_path_for(src) == P(StagedDir, <<src>>)

generated_path_for(src) == P(GeneratedDir, <<src>>)

source_path_for(src) == P(DotfilesDir, <<src>>)

(***************************************************************************)
(* The State store (state.rs).                                             *)
(***************************************************************************)
DeployedEntry(src, target) == [src |-> src, target |-> target]

IgnoredEntry(path, reason) == [path |-> path, reason |-> reason]

\* State::default(): empty vectors and empty indexes.
DefaultState ==
    [ignored |-> <<>>, deployed |-> <<>>,
     ignored_index |-> {}, deployed_index |-> {}]

\* State::rebuild_indexes: the indexes are the key sets of the vectors.
rebuild_indexes(s) ==
    [s EXCEPT !.ignored_index = {s.ignored[i].path : i \in 1..Len(s.ignored)},
              !.deployed_index = {s.deployed[i].src : i \in 1..Len(s.deployed)}]

\* toml::to_string_pretty(State): the [[ignored]] tables, then the
\* [[deployed]] tables, each with its two keys; the indexes are serde(skip).
Serialize(s) ==
    [i \in 1..Len(s.ignored) |->
        [tbl |-> "ignored", k |-> s.ignored[i].path, v |-> s.ignored[i].reason]]
    \o
    [i \in 1..Len(s.deployed) |->
        [tbl |-> "deployed", k |-> s.deployed[i].src, v |-> s.deployed[i].target]]

\* toml::from_str::<State>: the tables of each array, in file order; the
\* indexes come back empty (serde(skip)).
Deserialize(text) ==
    LET ig == SelectSeq(text, LAMBDA t : t.tbl = "ignored")
        dp == SelectSeq(text, LAMBDA t : t.tbl = "deployed")
    IN  [ignored |-> [i \in 1..Len(ig) |-> IgnoredEntry(ig[i].k, ig[i].v)],
         deployed |-> [i \in 1..Len(dp) |-> DeployedEntry(dp[i].k, dp[i].v)],
         ignored_index |-> {}, deployed_index |-> {}]

\* The state file is absent, or holds a serialized State.
NoFile == [present |-> FALSE, text |-> <<>>]

StateFile(text) == [present |-> TRUE, text |-> text]

\* A faulty load: the indexes are left as deserialization gives them.
load_unindexed(d) == IF ~d.present THEN DefaultState ELSE Deserialize(d.text)

\* State::load: a missing file gives the default State; otherwise parse and
\* rebuild the indexes.
load(d) == IF ~d.present THEN DefaultState ELSE rebuild_indexes(Deserialize(d.text))

is_ignored(s, path) == path \in s.ignored_index

is_deployed(s, src) == src \in s.deployed_index

\* A faulty add_ignored: a path already held gets the new reason.
add_ignored_update(s, path, reason) ==
    IF path \notin s.ignored_index
    THEN [s EXCEPT !.ignored_index = @ \cup {path},
                   !.ignored = Append(@, IgnoredEntry(path, reason))]
    ELSE [s EXCEPT !.ignored =
             [i \in 1..Len(@) |-> IF @[i].path = path
                                  THEN IgnoredEntry(path, reason) ELSE @[i]]]

\* State::add_ignored: push only when the index did not hold the path.
add_ignored(s, path, reason) ==
    IF path \notin s.ignored_index
    THEN [s EXCEPT !.ignored_index = @ \cup {path},
                   !.ignored = Append(@, IgnoredEntry(path, reason))]
    ELSE s

\* A faulty add_deployed: every call pushes an entry.
add_deployed_push(s, src, target) ==
    [s EXCEPT !.deployed_index = @ \cup {src},
              !.deployed = Append(@, DeployedEntry(src, target))]

\* State::add_deployed: push when the index did not hold src; otherwise set
\* the target of the first entry with that src.
add_deployed(s, src, target) ==
    IF src \notin s.deployed_index
    THEN [s EXCEPT !.deployed_index = @ \cup {src},
                   !.deployed = Append(@, DeployedEntry(src, target))]
    ELSE LET hits == {i \in 1..Len(s.deployed) : s.deployed[i].src = src}
         IN  IF hits = {} THEN s
             ELSE LET first == CHOOSE i \in hits : \A j \in hits : i <= j
                  IN  [s EXCEPT !.deployed[first].target = target]

\* A faulty remove_deployed: only the first entry with that src is removed.
remove_deployed_first(s, src) ==
    IF src \in s.deployed_index
    THEN LET hits == {i \in 1..Len(s.deployed) : s.deployed[i].src = src}
             first == CHOOSE i \in hits : \A j \in hits : i <= j
         IN  [s EXCEPT !.deployed_index = @ \ {src},
                       !.deployed = SubSeq(@, 1, first - 1)
                                      \o SubSeq(@, first + 1, Len(@))]
    ELSE s

\* A faulty remove_deployed: src leaves the index, its entries stay.
remove_deployed_index_only(s, src) ==
    IF src \in s.deployed_index THEN [s EXCEPT !.deployed_index = @ \ {src}] ELSE s

\* State::remove_deployed: when the index held src, retain the other entries.
remove_deployed(s, src) ==
    IF src \in s.deployed_index
    THEN [s EXCEPT !.deployed_index = @ \ {src},
                   !.deployed = SelectSeq(@, LAMBDA e : e.src # src)]
    ELSE s

\* State::remove_ignored: when the index held path, retain the other entries.
remove_ignored(s, path) ==
    IF path \in s.ignored_index
    THEN [s EXCEPT !.ignored_index = @ \ {path},
                   !.ignored = SelectSeq(@, LAMBDA e : e.path # path)]
    ELSE s

(***************************************************************************)
(* The filesystem (the Fs trait, platform/mod.rs; RealFs and FakeFs).      *)
(* A filesystem is a function from paths to entries.  Every mutating call  *)
(* returns [ok, fs, err]; err is anyhow's context chain, outermost first,  *)
(* each frame with the paths its message prints.  The content of a file is *)
(* a text, a sequence of characters; a file has Unix permission bits.      *)
(***************************************************************************)
NoPath == P(<<>>, <<>>)

\* 0o644, the mode of a newly created file.
DefaultMode == 420

\* 0o600
PrivateMode == 384

Absent == [kind |-> "absent", content |-> <<>>, dest |-> NoPath, mode |-> 0]

FileWithMode(c, m) == [kind |-> "file", content |-> c, dest |-> NoPath, mode |-> m]

File(c) == FileWithMode(c, DefaultMode)

Symlink(d) == [kind |-> "symlink", content |-> <<>>, dest |-> d, mode |-> 0]

Frame(msg, paths) == [msg |-> msg, paths |-> paths]

Ok(f) == [ok |-> TRUE, fs |-> f, err |-> <<>>]

Err(f, frames) == [ok |-> FALSE, fs |-> f, err |-> frames]

\* A faulty with_context: the error is swallowed and the caller goes on.
with_context_swallowed(r, frame) == [r EXCEPT !.ok = TRUE, !.err = <<>>]

\* anyhow's with_context: on error, a frame is put in front of the chain.
with_context(r, frame) == IF r.ok THEN r ELSE [r EXCEPT !.err = <<frame>> \o @]

\* Every path an error chain prints.
ErrPaths(err) == UNION {err[i].paths : i \in 1..Len(err)}

SymlinkHops == 32

RECURSIVE ResolveN(_, _, _)
ResolveN(f, p, n) ==
    IF n = 0 \/ p \notin DOMAIN f \/ f[p].kind # "symlink" THEN p
    ELSE ResolveN(f, f[p].dest, n - 1)

\* Following symlinks, as the OS does for every call that is not lstat-like.
resolve_path(f, p) == ResolveN(f, p, SymlinkHops)

Lookup(f, p) == IF p \in DOMAIN f THEN f[p] ELSE Absent

\* Fs::exists follows symlinks: a broken symlink does not exist.
exists(f, p) == Lookup(f, resolve_path(f, p)).kind # "absent"

\* Fs::is_symlink is a raw lstat.
is_symlink(f, p) == Lookup(f, p).kind = "symlink"

\* Fs::read_link
read_link(f, p) ==
    IF is_symlink(f, p) THEN [ok |-> TRUE, dest |-> f[p].dest]
    ELSE [ok |-> FALSE, dest |-> NoPath]

\* Fs::read_to_string / Fs::read, through symlinks.
read(f, p) ==
    LET e == Lookup(f, resolve_path(f, p))
    IN  IF e.kind = "file" THEN [ok |-> TRUE, content |-> e.content]
        ELSE [ok |-> FALSE, content |-> <<>>]

\* Fs::file_mode, through symlinks.
file_mode(f, p) ==
    LET e == Lookup(f, resolve_path(f, p))
    IN  IF e.kind = "file" THEN [ok |-> TRUE, mode |-> e.mode]
        ELSE [ok |-> FALSE, mode |-> 0]

\* What an interrupted copy can leave at its destination.
Partial == <<"<partial>">>

\* A faulty copy: the last character is lost.
copy_lossy(f, from, to, fault) ==
    LET src == read(f, from)
    IN  IF ~src.ok \/ fault # "none"
        THEN Err(f, <<Frame("Failed to copy", {from, to}), Frame("os error", {})>>)
        ELSE Ok([f EXCEPT ![to] = File(IF src.content = <<>> THEN <<>>
                                       ELSE SubSeq(src.content, 1, Len(src.content) - 1))])

\* Fs::copy: the source is read through symlinks; the destination is
\* created or overwritten (no call of the model copies onto a symlink, where
\* RealFs would write through it and FakeFs replace it); it gets the
\* permission bits of the source.  fault is "none", "clean" (the call fails
\* and writes nothing) or "partial" (it fails after creating the
\* destination).
copy(f, from, to, fault) ==
    LET src == read(f, from)
        frame == Frame("Failed to copy", {from, to})
    IN  IF ~src.ok \/ fault = "clean" THEN Err(f, <<frame, Frame("os error", {})>>)
        ELSE IF fault = "partial"
             THEN Err([f EXCEPT ![to] = File(Partial)], <<frame, Frame("os error", {})>>)
             ELSE Ok([f EXCEPT ![to] = FileWithMode(src.content, file_mode(f, from).mode)])

\* Fs::remove_file: removes a file or a symlink (not followed).
remove_file(f, p, fault) ==
    IF fault # "none" \/ Lookup(f, p).kind \notin {"file", "symlink"}
    THEN Err(f, <<Frame("Failed to remove file", {p}), Frame("os error", {})>>)
    ELSE Ok([f EXCEPT ![p] = Absent])

\* Fs::rename: one atomic step; `to` is replaced by the entry at `from`.
rename(f, from, to, fault) ==
    IF fault # "none" \/ Lookup(f, from).kind = "absent"
    THEN Err(f, <<Frame("Failed to rename", {from, to}), Frame("os error", {})>>)
    ELSE Ok([f EXCEPT ![to] = f[from], ![from] = Absent])

\* Fs::symlink: creates `link` pointing to `original`; the OS refuses an
\* existing `link`.
symlink(f, original, link, fault) ==
    IF fault # "none" \/ Lookup(f, link).kind # "absent"
    THEN Err(f, <<Frame("Failed to create symlink", {link, original}),
                  Frame("os error", {})>>)
    ELSE Ok([f EXCEPT ![link] = Symlink(original)])

\* Fs::write: through symlinks; creates the file, or truncates it and
\* leaves its permission bits as they are.
write(f, p, content, fault) ==
    IF fault # "none"
    THEN Err(f, <<Frame("Failed to write file", {p}), Frame("os error", {})>>)
    ELSE LET resolved == resolve_path(f, p)
             old == Lookup(f, resolved)
         IN  Ok([f EXCEPT ![resolved] =
                    FileWithMode(content, IF old.kind = "file" THEN old.mode
                                          ELSE DefaultMode)])

\* Fs::set_file_mode, through symlinks.
set_file_mode(f, p, mode, fault) ==
    LET resolved == resolve_path(f, p)
    IN  IF fault # "none" \/ Lookup(f, resolved).kind # "file"
        THEN Err(f, <<Frame("Failed to set permissions", {p}), Frame("os error", {})>>)
        ELSE Ok([f EXCEPT ![resolved] = [@ EXCEPT !.mode = mode]])

\* "Preserve permissions" of generate_file and stage_file: after the file at
\* `to` has been written, it is given the permission bits of `from`.
preserve_mode(r, from, to) ==
    IF ~r.ok THEN r
    ELSE IF ~file_mode(r.fs, from).ok
    THEN Err(r.fs, <<Frame("Failed to read metadata", {from}), Frame("os error", {})>>)
    ELSE set_file_mode(r.fs, to, file_mode(r.fs, from).mode, "none")

\* A faulty is_janus_symlink: any symlink at the target counts as janus's.
is_janus_symlink_any(f, target, expected_staged) == is_symlink(f, target)

\* ops/mod.rs is_janus_symlink: the target is a symlink and its link
\* destination is exactly the expected staged path.
is_janus_symlink(f, target, expected_staged) ==
    IF ~is_symlink(f, target) THEN FALSE
    ELSE LET l == read_link(f, target)
         IN  l.ok /\ l.dest = expected_staged

(***************************************************************************)
(* Configuration (config.rs).                                              *)
(***************************************************************************)
\* A FileEntry; target = NoPath stands for `target: None`.
FileEntry(src, tgt, template) == [src |-> src, target |-> tgt, template |-> template]

ConfigDir == <<"~", ".config">>

\* FileEntry::target: the configured target, or ~/.config/{src}.
target(e) == IF e.target = NoPath THEN P(ConfigDir, <<e.src>>) ELSE e.target

Srcs == {"a", "b"}

\* The configurations the model runs on: two ordinary entries (one with a
\* defaulted target); two targets that differ only in their extension; two
\* entries that share a src.
Configs ==
    { << FileEntry("a", P(ConfigDir, <<"x", "conf">>), TRUE),
         FileEntry("b", NoPath, FALSE) >>,
      << FileEntry("a", P(ConfigDir, <<"x", "conf">>), FALSE),
         FileEntry("b", P(ConfigDir, <<"x", "toml">>), TRUE) >>,
      << FileEntry("a", P(ConfigDir, <<"x", "conf">>), FALSE),
         FileEntry("a", P(ConfigDir, <<"y", "conf">>), FALSE) >> }

\* `files: Option<&[String]>`: None (--all) or a list of patterns.
AllFiles == [all |-> TRUE, patterns |-> <<>>]

Patterns(ps) == [all |-> FALSE, patterns |-> ps]

\* glob::Pattern::matches for the patterns the model uses: "*" and literal
\* names.
glob_matches(pattern, src) == pattern = "*" \/ pattern = src

\* Config::filter_files
filter_files(c, patterns) ==
    IF patterns.all THEN c
    ELSE SelectSeq(c, LAMBDA e : \E i \in 1..Len(patterns.patterns) :
                                    glob_matches(patterns.patterns[i], e.src))

\* Config::bail_unmatched: Ok for --all, an error for explicit patterns.
bail_unmatched(patterns) ==
    IF patterns.all THEN <<>>
    ELSE <<Frame("No matching files found in config", {})>>

Selections == {AllFiles, Patterns(<<"a">>)}

Targets == UNION {{expand_tilde(target(c[i])) : i \in 1..Len(c)} : c \in Configs}

\* Paths outside the tree janus manages: a file of someone else's and a
\* path that does not exist.
OtherPath == P(<<"some", "other">>, <<"file">>)

MissingPath == P(<<"some", "other">>, <<"gone">>)

AllPaths ==
    Targets
    \cup {temp_path_for(t) : t \in Targets}
    \cup {backup_path_for(t) : t \in Targets}
    \cup {staged_path_for(s) : s \in Srcs}
    \cup {generated_path_for(s) : s \in Srcs}
    \cup {source_path_for(s) : s \in Srcs}
    \cup {OtherPath, MissingPath}

(***************************************************************************)
(* Runs.  A run is one janus command; run.pc is the place the command has  *)
(* reached, run.i the index of the entry it is processing; pre,            *)
(* pre_backup and backed record what the run saw at the current entry.     *)
(***************************************************************************)
\* StatusFilters: --deployed, --undeployed, --only-diffs.
StatusFilters(deployed, undeployed, only_diffs) ==
    [deployed |-> deployed, undeployed |-> undeployed, only_diffs |-> only_diffs]

NoFilters == StatusFilters(FALSE, FALSE, FALSE)

IdleRun ==
    [op |-> "none", pc |-> "idle", entries |-> <<>>, i |-> 0,
     force |-> FALSE, remove_file |-> FALSE, dry_run |-> FALSE,
     result |-> "none", err |-> <<>>, errors |-> 0,
     pre |-> Absent, pre_backup |-> Absent, backed |-> FALSE, saved |-> 0,
     at |-> "idle", fault |-> "none", modified |-> 0, succeeded |-> 0,
     generated |-> FALSE, orphans |-> FALSE, walk |-> <<>>, keep |-> {},
     filters |-> NoFilters, statuses |-> <<>>,
     order |-> <<>>, global_vars |-> <<>>, global_secret_entries |-> <<>>,
     vars |-> <<>>, secret_entries |-> <<>>, k |-> 0, secrets |-> <<>>,
     cache |-> <<>>, calls |-> <<>>,
     timeout |-> 0, now |-> 0, elapsed |-> 0, tries |-> <<>>, owner |-> "none",
     procs |-> <<>>, import_all |-> FALSE, answers |-> <<>>]

NewRun(op, entries, force, rm, dry) ==
    [IdleRun EXCEPT !.op = op, !.entries = entries, !.i = 1,
                    !.force = force, !.remove_file = rm,
                    !.dry_run = dry]

\* The run has returned: `at` keeps the place it returned from.
Finished(r, err) ==
    [r EXCEPT !.pc = "done", !.result = IF err = <<>> THEN "ok" ELSE "err",
              !.err = err, !.at = r.pc]

CanStart == run.pc \in {"idle", "done"}

\* The faults a step may draw: none once the budget is spent.
FaultChoices(kinds) == IF faults > 0 THEN {"none"} \cup kinds ELSE {"none"}

Spend(fault) == IF fault = "none" THEN faults ELSE faults - 1

\* Whether the next run may be `d`: in scripted mode the head of the script,
\* otherwise any run while the run budget lasts.
MayRun(d) ==
    IF hist.script # <<>> THEN Head(hist.script) = d ELSE hist.runs < MaxRuns

\* A command line: the command, its file selection, its flag (--force for
\* deploy, --remove-file for undeploy) and --dry-run.
RunDesc(op, files, flag, dry) == [op |-> op, files |-> files, flag |-> flag, dry |-> dry]

\* One round: generate, stage, deploy over the same selection.
Round(files, force) ==
    << RunDesc("generate", files, FALSE, FALSE),
       RunDesc("stage", files, FALSE, FALSE),
       RunDesc("deploy", files, force, FALSE) >>

RoundLen == Len(Round(AllFiles, FALSE))

NoSnap == [fs |-> <<>>, disk |-> NoFile]

\* What is known of the run before the current one.
NoPrev == [op |-> "none", result |-> "none", at |-> "idle"]

\* A run starts.  In scripted mode, when exactly one round is left, the
\* filesystem and the state file as the first round left them are recorded.
Started == [hist EXCEPT !.runs = IF hist.script # <<>> THEN @ ELSE @ + 1,
                        !.script = IF @ # <<>> THEN Tail(@) ELSE @,
                        !.quiet = TRUE,
                        !.snap = IF Len(hist.script) = RoundLen
                                 THEN [fs |-> fs, disk |-> disk] ELSE @,
                        !.prev = IF hist.script # <<>>
                                 THEN [op |-> run.op, result |-> run.result,
                                       at |-> run.at]
                                 ELSE @]

CurEntry == run.entries[run.i]

CurStaged == staged_path_for(CurEntry.src)

CurTarget == expand_tilde(target(CurEntry))

\* A faulty save: reports success without writing the state file.
save_skipped(s, d, fault) ==
    IF fault = "none" THEN [ok |-> TRUE, disk |-> d, err |-> <<>>]
    ELSE [ok |-> FALSE, disk |-> d,
          err |-> <<Frame("Failed to write state file", {}), Frame("os error", {})>>]

\* A faulty save: the state file is written although the error is returned.
save_written(s, d, fault) ==
    IF fault = "none" THEN [ok |-> TRUE, disk |-> StateFile(Serialize(s)), err |-> <<>>]
    ELSE [ok |-> FALSE, disk |-> StateFile(Serialize(s)),
          err |-> <<Frame("Failed to write state file", {}), Frame("os error", {})>>]

\* State::save / save_with_recovery: serialize and write the state file; the
\* error is returned after the recovery text is logged.
save(s, d, fault) ==
    IF fault = "none" THEN [ok |-> TRUE, disk |-> StateFile(Serialize(s)), err |-> <<>>]
    ELSE [ok |-> FALSE, disk |-> d,
          err |-> <<Frame("Failed to write state file", {}), Frame("os error", {})>>]

(***************************************************************************)
(* deploy (ops/deploy.rs).  One action per filesystem step of the atomic   *)
(* protocol, so that every intermediate filesystem state is a state of the *)
(* model.                                                                  *)
(***************************************************************************)
\* deploy::run up to the loop: filter, bail when nothing matches, load State.
DeployStart(files, force, dry) ==
    /\ CanStart
    /\ MayRun(RunDesc("deploy", files, force, dry))
    /\ LET entries == filter_files(cfg, files)
           r == NewRun("deploy", entries, force, FALSE, dry)
       IN  IF entries = <<>>
           THEN /\ run' = Finished(r, bail_unmatched(files))
                /\ st' = st
           ELSE /\ run' = [r EXCEPT !.pc = "d_entry"]
                /\ st' = load(disk)
    /\ hist' = Started
    /\ UNCHANGED <<cfg, fs, disk, faults, sy>>

\* A faulty needs_backup: janus's own symlink is backed up too.
needs_backup_own(f, tp, sp, force) ==
    /\ exists(f, tp) \/ is_symlink(f, tp)
    /\ ~force

\* deploy_symlink: whether the target is backed up first.
needs_backup(f, tp, sp, force) ==
    /\ exists(f, tp) \/ is_symlink(f, tp)
    /\ ~force
    /\ ~is_janus_symlink(f, tp, sp)

\* The head of the loop body and the first part of deploy_symlink: the
\* staged-file check, dry-run, create_dir_all, and the backup copy.
DeployEntry ==
    /\ run.pc = "d_entry"
    /\ IF run.i > Len(run.entries)
       THEN /\ run' = Finished(run, <<>>)
            /\ UNCHANGED <<fs, faults>>
       ELSE IF ~exists(fs, CurStaged)
       THEN /\ run' = Finished(run, <<Frame("Staged file not found", {CurStaged})>>)
            /\ UNCHANGED <<fs, faults>>
       ELSE IF run.dry_run
       THEN /\ run' = [run EXCEPT !.i = @ + 1]
            /\ UNCHANGED <<fs, faults>>
       ELSE \E fault \in FaultChoices({"mkdir", "clean", "partial"}) :
            LET tp == CurTarget
                needs == needs_backup(fs, tp, CurStaged, run.force)
                tmp == temp_path_for(tp)
                r == IF fault = "mkdir"
                     THEN Err(fs, <<Frame("Failed to create directory", {}),
                                    Frame("os error", {})>>)
                     ELSE IF needs
                     THEN with_context(copy(fs, tp, backup_path_for(tp), fault),
                                       Frame("Failed to backup file", {tp}))
                     ELSE Ok(fs)
                seen == [run EXCEPT !.pre = Lookup(fs, tp),
                                    !.pre_backup = Lookup(fs, backup_path_for(tp)),
                                    !.backed = needs /\ fault # "mkdir"]
            IN  /\ (fault \in {"clean", "partial"} => needs)
                /\ fs' = r.fs
                /\ faults' = Spend(fault)
                /\ run' = IF r.ok
                          THEN [seen EXCEPT !.pc =
                                   IF exists(r.fs, tmp) \/ is_symlink(r.fs, tmp)
                                   THEN "d_stale" ELSE "d_symlink"]
                          ELSE Finished(seen, r.err)
    /\ UNCHANGED <<cfg, disk, st, hist, sy>>

\* deploy_symlink: remove a stale temp symlink.
DeployStale ==
    /\ run.pc = "d_stale"
    /\ \E fault \in FaultChoices({"remove"}) :
       LET tmp == temp_path_for(CurTarget)
           r == with_context(remove_file(fs, tmp, fault),
                             Frame("Failed to remove stale temp symlink", {tmp}))
       IN  /\ fs' = r.fs
           /\ faults' = Spend(fault)
           /\ run' = IF r.ok THEN [run EXCEPT !.pc = "d_symlink"]
                     ELSE Finished(run, r.err)
    /\ UNCHANGED <<cfg, disk, st, hist, sy>>

\* deploy_symlink: create the temp symlink to the staged file.
DeploySymlink ==
    /\ run.pc = "d_symlink"
    /\ \E fault \in FaultChoices({"symlink"}) :
       LET tmp == temp_path_for(CurTarget)
           r == with_context(symlink(fs, CurStaged, tmp, fault),
                             Frame("Failed to create temp symlink", {tmp}))
       IN  /\ fs' = r.fs
           /\ faults' = Spend(fault)
           /\ run' = IF r.ok THEN [run EXCEPT !.pc = "d_rename"]
                     ELSE Finished(run, r.err)
    /\ UNCHANGED <<cfg, disk, st, hist, sy>>

\* A faulty replacement: the target is removed first and the temp artifact
\* renamed into the gap, so a failing rename leaves no target.
rename_over_unlinked(f, tmp, tp, msg, fault) ==
    LET gone == [f EXCEPT ![tp] = Absent]
        r == rename(gone, tmp, tp, IF fault = "none" THEN "none" ELSE "rename")
    IN  IF r.ok THEN r
        ELSE LET cleanup == remove_file(r.fs, tmp,
                                        IF fault = "both" THEN "remove" ELSE "none")
             IN  with_context([r EXCEPT !.fs = cleanup.fs], Frame(msg, {tp}))

\* A faulty replacement: a failing rename leaves the temp artifact behind and
\* reports only the target.
rename_over_littering(f, tmp, tp, msg, fault) ==
    LET r == rename(f, tmp, tp, IF fault = "none" THEN "none" ELSE "rename")
    IN  IF r.ok THEN r
        ELSE Err(r.fs, <<Frame(msg, {tp}), Frame("os error", {})>>)

\* The rename of a temp artifact over the target, shared by deploy_symlink
\* and undeploy_with_copy: on failure the temp artifact is removed, the
\* result of that removal is dropped, and the rename's error is returned
\* under `msg`.  fault is "none", "rename" (the rename fails) or "both" (the
\* rename and the removal fail).
rename_over(f, tmp, tp, msg, fault) ==
    LET r == rename(f, tmp, tp, IF fault = "none" THEN "none" ELSE "rename")
    IN  IF r.ok THEN r
        ELSE LET cleanup == remove_file(r.fs, tmp,
                                        IF fault = "both" THEN "remove" ELSE "none")
             IN  with_context([r EXCEPT !.fs = cleanup.fs], Frame(msg, {tp}))

RenameFaults == IF faults >= 2 THEN {"none", "rename", "both"}
                ELSE IF faults = 1 THEN {"none", "rename"} ELSE {"none"}

RenameCost(fault) == IF fault = "both" THEN 2 ELSE IF fault = "rename" THEN 1 ELSE 0

\* deploy_symlink: rename the temp symlink over the target.
DeployRename ==
    /\ run.pc = "d_rename"
    /\ \E fault \in RenameFaults :
       LET r == rename_over(fs, temp_path_for(CurTarget), CurTarget,
                            "Failed to atomically replace", fault)
       IN  /\ fs' = r.fs
           /\ faults' = faults - RenameCost(fault)
           /\ run' = IF r.ok THEN [run EXCEPT !.pc = "d_save", !.fault = fault]
                     ELSE Finished([run EXCEPT !.fault = fault], r.err)
    /\ UNCHANGED <<cfg, disk, st, hist, sy>>

\* deploy::run after deploy_symlink: add_deployed, save_with_recovery, next
\* entry.
DeploySave ==
    /\ run.pc = "d_save"
    /\ \E fault \in FaultChoices({"write"}) :
       LET s2 == add_deployed(st, CurEntry.src, target(CurEntry))
           w == save(s2, disk, fault)
       IN  /\ st' = s2
           /\ disk' = w.disk
           /\ faults' = Spend(fault)
           /\ run' = IF w.ok THEN [run EXCEPT !.pc = "d_entry", !.i = @ + 1, !.saved = @ + 1]
                     ELSE Finished(run, w.err)
    /\ UNCHANGED <<cfg, fs, hist, sy>>

(***************************************************************************)
(* undeploy (ops/undeploy.rs).                                             *)
(***************************************************************************)
\* undeploy::run up to the loop.
UndeployStart(files, rm, dry) ==
    /\ CanStart
    /\ MayRun(RunDesc("undeploy", files, rm, dry))
    /\ LET entries == filter_files(cfg, files)
           r == NewRun("undeploy", entries, FALSE, rm, dry)
       IN  IF entries = <<>>
           THEN /\ run' = Finished(r, bail_unmatched(files))
                /\ st' = st
           ELSE /\ run' = [r EXCEPT !.pc = "u_entry"]
                /\ st' = load(disk)
    /\ hist' = Started
    /\ UNCHANGED <<cfg, fs, disk, faults, sy>>

\* The head of the loop body and of undeploy_single: skip what State does
\* not list, dry-run, skip what is not a janus symlink; with remove_file,
\* remove the symlink and drop the entry from the in-memory State.
UndeployEntry ==
    /\ run.pc = "u_entry"
    /\ IF run.i > Len(run.entries)
       THEN /\ run' = Finished(run, <<>>)
            /\ UNCHANGED <<fs, faults, st>>
       ELSE IF ~is_deployed(st, CurEntry.src) \/ run.dry_run
                 \/ ~is_janus_symlink(fs, CurTarget, CurStaged)
       THEN /\ run' = [run EXCEPT !.i = @ + 1]
            /\ UNCHANGED <<fs, faults, st>>
       ELSE IF run.remove_file
       THEN \E fault \in FaultChoices({"remove"}) :
            LET r == with_context(remove_file(fs, CurTarget, fault),
                                  Frame("Failed to remove symlink", {CurTarget}))
                seen == [run EXCEPT !.pre = Lookup(fs, CurTarget)]
            IN  /\ fs' = r.fs
                /\ faults' = Spend(fault)
                /\ st' = IF r.ok THEN remove_deployed(st, CurEntry.src) ELSE st
                /\ run' = IF r.ok THEN [seen EXCEPT !.pc = "u_save"]
                          ELSE Finished(seen, r.err)
       ELSE LET tmp == temp_path_for(CurTarget)
            IN  /\ run' = [run EXCEPT !.pre = Lookup(fs, CurTarget),
                                      !.pc = IF exists(fs, tmp) \/ is_symlink(fs, tmp)
                                             THEN "u_stale" ELSE "u_copy"]
                /\ UNCHANGED <<fs, faults, st>>
    /\ UNCHANGED <<cfg, disk, hist, sy>>

\* undeploy_with_copy: remove a stale temp file.
UndeployStale ==
    /\ run.pc = "u_stale"
    /\ \E fault \in FaultChoices({"remove"}) :
       LET tmp == temp_path_for(CurTarget)
           r == with_context(remove_file(fs, tmp, fault),
                             Frame("Failed to remove stale temp file", {tmp}))
       IN  /\ fs' = r.fs
           /\ faults' = Spend(fault)
           /\ run' = IF r.ok THEN [run EXCEPT !.pc = "u_copy"]
                     ELSE Finished(run, r.err)
    /\ UNCHANGED <<cfg, disk, st, hist, sy>>

\* undeploy_with_copy: copy the staged file to the temp path.
UndeployCopy ==
    /\ run.pc = "u_copy"
    /\ \E fault \in FaultChoices({"clean", "partial"}) :
       LET tmp == temp_path_for(CurTarget)
           r == with_context(copy(fs, CurStaged, tmp, fault),
                             Frame("Failed to copy staged file to temp", {tmp}))
       IN  /\ fs' = r.fs
           /\ faults' = Spend(fault)
           /\ run' = IF r.ok THEN [run EXCEPT !.pc = "u_rename"]
                     ELSE Finished(run, r.err)
    /\ UNCHANGED <<cfg, disk, st, hist, sy>>

\* undeploy_with_copy: rename the temp file over the symlink; then
\* undeploy_single drops the entry from the in-memory State.
UndeployRename ==
    /\ run.pc = "u_rename"
    /\ \E fault \in RenameFaults :
       LET r == rename_over(fs, temp_path_for(CurTarget), CurTarget,
                            "Failed to atomically replace symlink", fault)
       IN  /\ fs' = r.fs
           /\ faults' = faults - RenameCost(fault)
           /\ st' = IF r.ok THEN remove_deployed(st, CurEntry.src) ELSE st
           /\ run' = IF r.ok THEN [run EXCEPT !.pc = "u_save", !.fault = fault]
                     ELSE Finished([run EXCEPT !.fault = fault], r.err)
    /\ UNCHANGED <<cfg, disk, hist, sy>>

\* undeploy::run after undeploy_single returned true: save_with_recovery,
\* next entry.
UndeploySave ==
    /\ run.pc = "u_save"
    /\ \E fault \in FaultChoices({"write"}) :
       LET w == save(st, disk, fault)
       IN  /\ disk' = w.disk
           /\ faults' = Spend(fault)
           /\ run' = IF w.ok THEN [run EXCEPT !.pc = "u_entry", !.i = @ + 1, !.saved = @ + 1]
                     ELSE Finished(run, w.err)
    /\ UNCHANGED <<cfg, fs, st, hist, sy>>

(***************************************************************************)
(* generate and stage (ops/generate.rs, ops/stage.rs): error-collection.   *)
(***************************************************************************)
\* Tera::one_off, an opaque pure function of the template text (the
\* variables are fixed during a run of the model).
NL == "\n"

RECURSIVE Flatten(_)
Flatten(ls) == IF ls = <<>> THEN <<>> ELSE Head(ls) \o Flatten(Tail(ls))

\* has_tera_syntax: the line contains "{{", "{%" or "{#".
has_tera_syntax(line) ==
    \E i \in 1..(Len(line) - 1) : line[i] = "{" /\ line[i + 1] \in {"{", "%", "#"}

RECURSIVE SplitFrom(_, _, _)
SplitFrom(text, start, i) ==
    IF i > Len(text)
    THEN IF start <= Len(text) THEN <<SubSeq(text, start, Len(text))>> ELSE <<>>
    ELSE IF text[i] = NL
    THEN <<SubSeq(text, start, i)>> \o SplitFrom(text, i + 1, i + 1)
    ELSE SplitFrom(text, start, i + 1)

\* split_lines_inclusive: the lines of a text, each with its newline; a last
\* line without a newline is a line too.
split_lines_inclusive(text) == SplitFrom(text, 1, 1)

\* What Tera makes of one line: a line with a "{%" directive gives no
\* output, an expression or a comment gives its text without the markers,
\* any other line is left as it is.
RenderLine(line) ==
    IF \E i \in 1..(Len(line) - 1) : line[i] = "{" /\ line[i + 1] = "%" THEN <<>>
    ELSE IF has_tera_syntax(line) THEN SelectSeq(line, LAMBDA c : c \notin {"{", "#"})
    ELSE line

RECURSIVE RenderLines(_)
RenderLines(ls) ==
    IF ls = <<>> THEN <<>> ELSE RenderLine(Head(ls)) \o RenderLines(Tail(ls))

\* generate_file for a template: the Tera rendering of the text.
Render(text) == RenderLines(split_lines_inclusive(text))

\* An aggregated error that reports one failure however many there were.
Collected_first(what, n) == IF n = 0 THEN <<>> ELSE <<Frame(what, {}), Frame("count", {1})>>

\* The aggregated error of an error-collecting run.
Collected(what, n) == IF n = 0 THEN <<>> ELSE <<Frame(what, {}), Frame("count", {n})>>

\* generate::run up to the loop.
GenerateStart(files, dry) ==
    /\ CanStart
    /\ MayRun(RunDesc("generate", files, FALSE, dry))
    /\ LET entries == filter_files(cfg, files)
           r == NewRun("generate", entries, FALSE, FALSE, dry)
       IN  run' = IF entries = <<>> THEN Finished(r, bail_unmatched(files))
                  ELSE [r EXCEPT !.pc = "g_entry"]
    /\ hist' = Started
    /\ UNCHANGED <<cfg, fs, disk, st, faults, sy>>

\* generate_file for the current entry, and the end of generate::run.
GenerateEntry ==
    /\ run.pc = "g_entry"
    /\ IF run.i > Len(run.entries)
       THEN /\ run' = Finished(run, Collected("Failed to generate", run.errors))
            /\ UNCHANGED <<fs, faults>>
       ELSE LET src_path == source_path_for(CurEntry.src)
                dest_path == generated_path_for(CurEntry.src)
            IN  IF ~exists(fs, src_path)
                THEN /\ run' = [run EXCEPT !.i = @ + 1, !.errors = @ + 1]
                     /\ UNCHANGED <<fs, faults>>
                ELSE IF run.dry_run
                THEN /\ run' = [run EXCEPT !.i = @ + 1, !.succeeded = @ + 1]
                     /\ UNCHANGED <<fs, faults>>
                ELSE \E fault \in FaultChoices(IF CurEntry.template THEN {"mkdir", "write"}
                                               ELSE {"mkdir", "clean", "partial"}) :
                     LET r == IF fault = "mkdir" THEN Err(fs, <<Frame("Failed to create directory", {})>>)
                              ELSE IF CurEntry.template
                              THEN preserve_mode(
                                       write(fs, dest_path,
                                             Render(read(fs, src_path).content), fault),
                                       src_path, dest_path)
                              ELSE preserve_mode(copy(fs, src_path, dest_path, fault),
                                                 src_path, dest_path)
                     IN  /\ fs' = r.fs
                         /\ faults' = Spend(fault)
                         /\ run' = [run EXCEPT !.i = @ + 1,
                                               !.succeeded = IF r.ok THEN @ + 1 ELSE @,
                                               !.errors = IF r.ok THEN @ ELSE @ + 1]
    /\ UNCHANGED <<cfg, disk, st, hist, sy>>

\* stage::run up to the loop.
StageStart(files, dry) ==
    /\ CanStart
    /\ MayRun(RunDesc("stage", files, FALSE, dry))
    /\ LET entries == filter_files(cfg, files)
           r == NewRun("stage", entries, FALSE, FALSE, dry)
       IN  run' = IF entries = <<>> THEN Finished(r, bail_unmatched(files))
                  ELSE [r EXCEPT !.pc = "s_entry"]
    /\ hist' = Started
    /\ UNCHANGED <<cfg, fs, disk, st, faults, sy>>

\* stage_file for the current entry, and the end of stage::run.
StageEntry ==
    /\ run.pc = "s_entry"
    /\ IF run.i > Len(run.entries)
       THEN /\ run' = Finished(run, Collected("Failed to stage", run.errors))
            /\ UNCHANGED <<fs, faults>>
       ELSE LET src_path == generated_path_for(CurEntry.src)
                dest_path == staged_path_for(CurEntry.src)
            IN  IF ~exists(fs, src_path)
                THEN /\ run' = [run EXCEPT !.i = @ + 1, !.errors = @ + 1]
                     /\ UNCHANGED <<fs, faults>>
                ELSE IF run.dry_run
                THEN /\ run' = [run EXCEPT !.i = @ + 1, !.succeeded = @ + 1]
                     /\ UNCHANGED <<fs, faults>>
                ELSE \E fault \in FaultChoices({"mkdir", "clean", "partial"}) :
                     LET r == IF fault = "mkdir" THEN Err(fs, <<Frame("Failed to create directory", {})>>)
                              ELSE preserve_mode(copy(fs, src_path, dest_path, fault),
                                                 src_path, dest_path)
                     IN  /\ fs' = r.fs
                         /\ faults' = Spend(fault)
                         /\ run' = [run EXCEPT !.i = @ + 1,
                                               !.succeeded = IF r.ok THEN @ + 1 ELSE @,
                                               !.errors = IF r.ok THEN @ ELSE @ + 1]
    /\ UNCHANGED <<cfg, disk, st, hist, sy>>

(***************************************************************************)
(* The environment: between two runs, something other than janus replaces  *)
(* a configured target.  A change after the last run is seen by no run and *)
(* is left out.                                                            *)
(***************************************************************************)
CfgTargets == {expand_tilde(target(cfg[i])) : i \in 1..Len(cfg)}

Tamper(t, e) ==
    /\ CanStart
    /\ hist.script = <<>>
    /\ hist.tamper < MaxTamper
    /\ hist.runs < MaxRuns
    /\ t \in CfgTargets
    /\ fs[t] # e
    /\ fs' = [fs EXCEPT ![t] = e]
    /\ hist' = [hist EXCEPT !.tamper = @ + 1, !.quiet = FALSE,
                            !.edited = @ \cup {t}]
    /\ UNCHANGED <<cfg, disk, run, st, faults, sy>>

TamperEntries == {Absent, File(<<"theirs">>), Symlink(OtherPath), Symlink(MissingPath)}

(***************************************************************************)
(* Initial states: a configuration and a dotfiles tree in which each file  *)
(* has been generated and staged or not; either nothing is deployed yet    *)
(* (targets absent or holding the user's own file, no state file), or an   *)
(* earlier `deploy --all` has deployed every entry.  An earlier deploy     *)
(* whose rename and cleanup both failed may have left its temp symlink.    *)
(***************************************************************************)
\* A one-line Source with a template expression.
SourceText(src) == <<"{", "{", src, NL>>

Produced(e) == IF e.template THEN Render(SourceText(e.src)) ELSE SourceText(e.src)

\* How far each src has been taken: 0 source only, 1 generated, 2 staged.
InitLevels ==
    { [s \in Srcs |-> 0], [s \in Srcs |-> 2],
      [s \in Srcs |-> IF s = "a" THEN 2 ELSE 1] }

EntryOf(c, src) == c[CHOOSE i \in 1..Len(c) : c[i].src = src]

InitFs(c, lv, pre) ==
    [p \in AllPaths |->
        IF \E s \in Srcs : p = source_path_for(s) /\ s \in {c[i].src : i \in 1..Len(c)}
          THEN File(SourceText((CHOOSE s \in Srcs : p = source_path_for(s))))
        ELSE IF \E s \in Srcs : /\ p = generated_path_for(s)
                                /\ s \in {c[i].src : i \in 1..Len(c)} /\ lv[s] >= 1
          THEN File(Produced(EntryOf(c, CHOOSE s \in Srcs : p = generated_path_for(s))))
        ELSE IF \E s \in Srcs : /\ p = staged_path_for(s)
                                /\ s \in {c[i].src : i \in 1..Len(c)} /\ lv[s] >= 2
          THEN File(Produced(EntryOf(c, CHOOSE s \in Srcs : p = staged_path_for(s))))
        ELSE IF p \in DOMAIN pre THEN pre[p]
        ELSE IF p = OtherPath THEN File(<<"other">>)
        ELSE Absent]

NoHunk == [tag |-> "none", old_index |-> 0, old_len |-> 0, default |-> "none"]

\* No sync is running.  `before` is the Source text as sync_file read it,
\* `choices` what became of each op so far: "Equal", "Apply" or "Skip".
SyncIdle ==
    [pc |-> "idle", template |-> FALSE, dry_run |-> FALSE,
     source |-> <<>>, generated |-> <<>>, staged |-> <<>>,
     ops |-> <<>>, k |-> 0, output |-> <<>>, any_applied |-> FALSE,
     asked |-> 0, last |-> NoHunk, result |-> "none", written |-> <<>>,
     before |-> <<>>, choices |-> <<>>]


\* The State after deploy has gone through the first n entries of c.
RECURSIVE DeployedUpTo(_, _)
DeployedUpTo(c, n) ==
    IF n = 0 THEN DefaultState
    ELSE add_deployed(DeployedUpTo(c, n - 1), c[n].src, target(c[n]))

\* The tree after `deploy --all` on fully staged files and absent targets.
DeployedFs(c) ==
    [p \in AllPaths |->
        IF \E i \in 1..Len(c) : p = expand_tilde(target(c[i]))
        THEN Symlink(staged_path_for(
                 c[CHOOSE i \in 1..Len(c) : p = expand_tilde(target(c[i]))].src))
        ELSE InitFs(c, [s \in Srcs |-> 2], <<>>)[p]]

\* The temp symlink a failed deploy of the first entry leaves behind.
WithStale(f, c, stale) ==
    IF stale
    THEN [f EXCEPT ![temp_path_for(expand_tilde(target(c[1])))] =
                       Symlink(staged_path_for(c[1].src))]
    ELSE f

Init ==
    /\ cfg \in Configs
    /\ \E deployed \in BOOLEAN, stale \in BOOLEAN :
          IF deployed
          THEN /\ fs = WithStale(DeployedFs(cfg), cfg, stale)
               /\ disk = StateFile(Serialize(DeployedUpTo(cfg, Len(cfg))))
          ELSE /\ \E lv \in InitLevels :
                  \E pre \in [{expand_tilde(target(cfg[i])) : i \in 1..Len(cfg)}
                                 -> {Absent, File(<<"mine">>)}] :
                     fs = WithStale(InitFs(cfg, lv, pre), cfg, stale)
               /\ disk = NoFile
    /\ run = IdleRun
    /\ st = DefaultState
    /\ faults = MaxFaults
    /\ hist = [runs |-> 0, tamper |-> 0, quiet |-> TRUE, script |-> <<>>,
               snap |-> NoSnap, edited |-> {},
               prev |-> NoPrev]
    /\ sy = SyncIdle

Next ==
    \/ \E files \in Selections, force \in BOOLEAN, dry \in BOOLEAN :
          DeployStart(files, force, dry)
    \/ DeployEntry
    \/ DeployStale
    \/ DeploySymlink
    \/ DeployRename
    \/ DeploySave
    \/ \E files \in Selections, rm \in BOOLEAN, dry \in BOOLEAN :
          UndeployStart(files, rm, dry)
    \/ UndeployEntry
    \/ UndeployStale
    \/ UndeployCopy
    \/ UndeployRename
    \/ UndeploySave
    \/ \E t \in Targets, e \in TamperEntries : Tamper(t, e)

Spec == Init /\ [][Next]_vars

(***************************************************************************)
(* Properties of deploy and undeploy.                                      *)
(***************************************************************************)
\* The entry at t is a symlink whose link destination is exactly s.
IsLinkTo(f, t, s) == f[t].kind = "symlink" /\ f[t].dest = s

TargetOf(k) == expand_tilde(target(run.entries[k]))

StagedOf(k) == staged_path_for(run.entries[k].src)

PersistedSrcs == {load(disk).deployed[i].src : i \in 1..Len(load(disk).deployed)}

\* The run is inside deploy_symlink / undeploy_with_copy for the current
\* entry, or has just returned from inside it.
InsideSwap(op, pcs) ==
    /\ run.op = op
    /\ run.i \in 1..Len(run.entries)
    /\ hist.quiet
    /\ \/ run.pc \in pcs
       \/ run.pc = "done" /\ run.at \in pcs

\* C1: while deploy replaces a target that already existed, and while
\* undeploy-with-copy replaces the symlink, the target path holds at every
\* step either the entry it had before or the new one (the symlink to the
\* staged file, respectively a complete copy of the staged file): it is
\* never absent and never a partial file.
C1_TargetAlwaysPresent ==
    /\ InsideSwap("deploy", {"d_stale", "d_symlink", "d_rename", "d_save"})
          /\ run.pre.kind # "absent"
       => fs[CurTarget] \in {run.pre, Symlink(CurStaged)}
    /\ InsideSwap("undeploy", {"u_stale", "u_copy", "u_rename", "u_save"})
          /\ ~run.remove_file
       => /\ fs[CurTarget] \in {run.pre, File(fs[CurStaged].content)}
          /\ fs[CurTarget].content # Partial

\* The temp symlink exists and the user's file is still at the target.
C1_Witness ==
    /\ run.op = "deploy" /\ run.pc = "d_rename"
    /\ run.pre.kind = "file"
    /\ fs[CurTarget] = run.pre
    /\ fs[temp_path_for(CurTarget)].kind = "symlink"

\* C2: when the rename step of deploy fails, the target is what it was
\* before, and the temp symlink is gone unless its removal failed too, in
\* which case the returned error names the temp path.
C2_RenameFailure ==
    run.op = "deploy" /\ run.pc = "done" /\ run.at = "d_rename" /\ hist.quiet
    => /\ run.result = "err"
       /\ fs[CurTarget] = run.pre
       /\ run.fault = "rename" => fs[temp_path_for(CurTarget)].kind = "absent"
       /\ run.fault = "both" => temp_path_for(CurTarget) \in ErrPaths(run.err)

\* The rename failed, the removal of the temp symlink failed too, and the
\* temp symlink is still there.
C2_Witness ==
    /\ run.op = "deploy" /\ run.pc = "done" /\ run.at = "d_rename"
    /\ run.fault = "both"
    /\ fs[temp_path_for(CurTarget)] = Symlink(CurStaged)
    /\ run.pre.kind = "file"

\* What a step of a deploy or undeploy run may change: the current entry's
\* target, its temp path and its backup path.
OwnPaths == {CurTarget, temp_path_for(CurTarget), backup_path_for(CurTarget)}

StepIsLocal ==
    run.op \in {"deploy", "undeploy"} /\ run.pc \notin {"idle", "done"}
        /\ run.i \in 1..Len(run.entries)
    => /\ \A p \in AllPaths : fs'[p] # fs[p] => p \in OwnPaths
       /\ run'.i >= run.i
       /\ run'.result = "err" => run'.pc = "done" /\ run'.i = run.i

EarlierDone ==
    run.pc = "done" /\ run.result = "err" /\ ~run.dry_run /\ hist.quiet
        /\ run.i \in 1..Len(run.entries)
    => /\ run.op = "deploy" =>
            \A k \in 1..(run.i - 1) :
                /\ IsLinkTo(fs, TargetOf(k), StagedOf(k))
                /\ run.entries[k].src \in PersistedSrcs
       /\ run.op = "undeploy" =>
            \A k \in 1..(run.i - 1) :
                run.entries[k].src \in PersistedSrcs
                    => ~IsLinkTo(fs, TargetOf(k), StagedOf(k))

C4_EntriesAreLive ==
    run.pc \in {"idle", "done"} /\ hist.tamper = 0
    => \A i \in 1..Len(load(disk).deployed) :
          LET e == load(disk).deployed[i]
          IN  IsLinkTo(fs, expand_tilde(e.target), staged_path_for(e.src))

\* C6: undeploy changes a target only when the State lists the entry's src
\* as deployed and the target is a symlink to .staged/<src>; otherwise the
\* step leaves the filesystem and the State as they were and the run goes on
\* without an error.
C6_Step ==
    run.op = "undeploy" /\ run.pc \notin {"idle", "done"}
        /\ run.i \in 1..Len(run.entries)
    => /\ (\E t \in Targets : fs'[t] # fs[t])
            => /\ CurEntry.src \in st.deployed_index
               /\ CurEntry.src \in {st.deployed[k].src : k \in 1..Len(st.deployed)}
               /\ IsLinkTo(fs, CurTarget, CurStaged)
       /\ run.pc = "u_entry"
             /\ ~(CurEntry.src \in st.deployed_index /\ IsLinkTo(fs, CurTarget, CurStaged))
            => /\ fs' = fs
               /\ st' = st
               /\ disk' = disk
               /\ run'.result # "err"
               /\ run'.i = run.i + 1

C6_UndeployOnlyOwn == [][C6_Step]_vars

\* The State lists the first entry, its target is no longer janus's
\* symlink, and undeploy has passed it by.
C6_Witness ==
    /\ run.op = "undeploy" /\ run.pc = "u_entry" /\ run.i = 2 /\ ~run.dry_run
    /\ run.entries[1].src \in st.deployed_index
    /\ fs[TargetOf(1)].kind \in {"file", "symlink"}
    /\ ~IsLinkTo(fs, TargetOf(1), StagedOf(1))

\* "<target>.<original-extension>.janus.bak": the stem, the extension (empty
\* when the name has none), then janus.bak.
ExpectedBackup(t) ==
    [dir |-> t.dir,
     name |-> (IF Len(t.name) >= 2 /\ ~(Len(t.name) = 2 /\ t.name[1] = "")
               THEN t.name ELSE t.name \o <<"">>) \o <<"janus", "bak">>]

\* The content read through an entry: a file's own, or that of the file a
\* symlink leads to.
ContentThrough(f, e) ==
    IF e.kind = "symlink" THEN f[e.dest].content ELSE e.content

BackupCase ==
    /\ run.pre.kind # "absent"
    /\ run.pre # Symlink(CurStaged)
    /\ ~run.force

\* C7: a deploy of a file that succeeds has written the backup file
\* <target>.<ext>.janus.bak exactly when the target was there before, was not
\* the symlink to the staged file, and force was false; the backup then
\* holds the original content and the target is the symlink to the staged
\* file.  With force, or over janus's own symlink, no backup file is
\* written, at any step.
C7_Backup ==
    /\ run.op = "deploy" /\ run.pc = "d_save" =>
          /\ fs[CurTarget] = Symlink(CurStaged)
          /\ BackupCase => fs[ExpectedBackup(CurTarget)]
                              = File(ContentThrough(fs, run.pre))
          /\ run.backed <=> BackupCase
    /\ InsideSwap("deploy", {"d_stale", "d_symlink", "d_rename", "d_save"})
          /\ ~BackupCase
       => /\ ~run.backed
          /\ fs[ExpectedBackup(CurTarget)] = run.pre_backup

\* A deploy without force has replaced the user's file and backed it up.
C7_Witness ==
    /\ run.op = "deploy" /\ run.pc = "d_save"
    /\ run.pre = File(<<"mine">>) /\ ~run.force
    /\ fs[ExpectedBackup(CurTarget)] = File(<<"mine">>)


(***************************************************************************)
(* The State store alone: a State that is empty or was just loaded from a  *)
(* state file, and any sequence of calls of its four mutators.             *)
(***************************************************************************)
MaxTables == 2

IgnoredPaths == {"p", "q"}

Reasons == {"auto", "user"}

StateTargets == {P(ConfigDir, <<"x", "conf">>), P(ConfigDir, <<"y", "conf">>)}

\* The tables a state file is made of; a hand-edited file may repeat a key.
Tables ==
    [tbl : {"ignored"}, k : IgnoredPaths, v : Reasons]
        \cup [tbl : {"deployed"}, k : Srcs, v : StateTargets]

StateFiles == UNION {[1..n -> Tables] : n \in 0..MaxTables}

InitState ==
    /\ cfg = <<>>
    /\ fs = [p \in {} |-> Absent]
    /\ disk \in {NoFile} \cup {StateFile(t) : t \in StateFiles}
    /\ st = load(disk)
    /\ run = IdleRun
    /\ faults = 0
    /\ hist = [runs |-> 0, tamper |-> 0, quiet |-> TRUE, script |-> <<>>,
               snap |-> NoSnap, edited |-> {},
               prev |-> NoPrev]
    /\ sy = SyncIdle

AddDeployed(src, tgt) ==
    /\ st' = add_deployed(st, src, tgt)
    /\ UNCHANGED <<cfg, fs, disk, run, faults, hist, sy>>

RemoveDeployed(src) ==
    /\ st' = remove_deployed(st, src)
    /\ UNCHANGED <<cfg, fs, disk, run, faults, hist, sy>>

AddIgnored(path, reason) ==
    /\ st' = add_ignored(st, path, reason)
    /\ UNCHANGED <<cfg, fs, disk, run, faults, hist, sy>>

RemoveIgnored(path) ==
    /\ st' = remove_ignored(st, path)
    /\ UNCHANGED <<cfg, fs, disk, run, faults, hist, sy>>

NextState ==
    \/ \E src \in Srcs, tgt \in StateTargets : AddDeployed(src, tgt)
    \/ \E src \in Srcs : RemoveDeployed(src)
    \/ \E path \in IgnoredPaths, reason \in Reasons : AddIgnored(path, reason)
    \/ \E path \in IgnoredPaths : RemoveIgnored(path)

SpecState == InitState /\ [][NextState]_vars

\* C5: after every add_deployed / remove_deployed / add_ignored /
\* remove_ignored call on a State that was empty or just loaded, the src keys
\* of the deployed list are exactly deployed_index and the path keys of the
\* ignored list are exactly ignored_index.
C5_IndexesMatch ==
    /\ {st.deployed[i].src : i \in 1..Len(st.deployed)} = st.deployed_index
    /\ {st.ignored[i].path : i \in 1..Len(st.ignored)} = st.ignored_index

\* A file that listed a src twice was loaded, one call removed that src and
\* another added an ignored path.
C5_Witness ==
    /\ disk.present /\ Len(disk.text) = 2
    /\ disk.text[1].tbl = "deployed" /\ disk.text[2].tbl = "deployed"
    /\ disk.text[1].k = disk.text[2].k
    /\ st.deployed = <<>>
    /\ Len(st.ignored) = 1

(***************************************************************************)
(* Two rounds of generate, stage, deploy on an unchanged Source, with no   *)
(* I/O failure and nothing else touching the files.                        *)
(***************************************************************************)
InitRound ==
    /\ cfg \in Configs
    /\ \E lv \in InitLevels, stale \in BOOLEAN :
       \E pre \in [{expand_tilde(target(cfg[i])) : i \in 1..Len(cfg)}
                      -> {Absent, File(<<"mine">>), Symlink(OtherPath)}] :
          fs = [InitFs(cfg, lv, pre) EXCEPT
                   ![temp_path_for(expand_tilde(target(cfg[1])))] =
                       IF stale THEN Symlink(OtherPath) ELSE Absent]
    /\ disk = NoFile
    /\ run = IdleRun
    /\ st = DefaultState
    /\ faults = 0
    /\ \E files \in Selections, f1 \in BOOLEAN, f2 \in BOOLEAN :
          hist = [runs |-> MaxRuns, tamper |-> MaxTamper, quiet |-> TRUE,
                  script |-> Round(files, f1) \o Round(files, f2),
                  snap |-> NoSnap, edited |-> {},
               prev |-> NoPrev]
    /\ sy = SyncIdle

NextRound ==
    \/ \E files \in Selections, dry \in BOOLEAN : GenerateStart(files, dry)
    \/ GenerateEntry
    \/ \E files \in Selections, dry \in BOOLEAN : StageStart(files, dry)
    \/ StageEntry
    \/ \E files \in Selections, force \in BOOLEAN, dry \in BOOLEAN :
          DeployStart(files, force, dry)
    \/ DeployEntry
    \/ DeployStale
    \/ DeploySymlink
    \/ DeployRename
    \/ DeploySave

SpecRound == InitRound /\ [][NextRound]_vars

\* The first round is over and its result recorded.
SecondRound == hist.snap # NoSnap

\* The second round is over.
RoundsDone == SecondRound /\ hist.script = <<>> /\ run.pc = "done"

EntriesFor(src) ==
    {i \in 1..Len(load(disk).deployed) : load(disk).deployed[i].src = src}

\* C8: after generate, stage, deploy and then generate, stage, deploy again
\* on an unchanged Source, the filesystem and the state file are what they
\* were after the first round; no step of the second round writes a backup
\* file; and the state file holds exactly one DeployedEntry for each src
\* that was deployed.
C8_SecondRoundSame ==
    /\ SecondRound =>
          \A t \in Targets : fs[ExpectedBackup(t)] = hist.snap.fs[ExpectedBackup(t)]
    /\ RoundsDone =>
          /\ fs = hist.snap.fs
          /\ disk = hist.snap.disk
          /\ \A k \in 1..Len(run.entries) :
                Cardinality(EntriesFor(run.entries[k].src)) = 1

\* Both rounds are over, the first deploy backed a user's file up, and the
\* second deploy went over janus's own symlinks.
C8_Witness ==
    /\ RoundsDone /\ run.op = "deploy" /\ run.result = "ok"
    /\ Len(run.entries) = 2
    /\ fs[ExpectedBackup(TargetOf(1))] = File(<<"mine">>)
    /\ IsLinkTo(fs, TargetOf(2), StagedOf(2))

(***************************************************************************)
(* sync (ops/sync.rs): sync_file on one entry.  A text is a sequence of    *)
(* characters; the three texts are Source, Generated and Staged.           *)
(***************************************************************************)
MaxLines == 2

PlainLines == {<<"a", NL>>, <<"b", NL>>}

MarkedLines == {<<"{", "{", "a", NL>>, <<"{", "%", NL>>, <<"a", "{", "#", NL>>}

TextsOf(lines) == {Flatten(ls) : ls \in UNION {[1..n -> lines] : n \in 0..MaxLines}}

\* similar::TextDiff::from_lines(old, new).ops(): a shortest edit script.
\* The lines it keeps are a longest common subsequence; which one, when
\* there are several, is the crate's choice, so the model takes any.
Matchings(old, new) ==
    {M \in SUBSET ((1..Len(old)) \X (1..Len(new))) :
        /\ \A p \in M : old[p[1]] = new[p[2]]
        /\ \A p \in M, q \in M :
              p # q => (p[1] < q[1] /\ p[2] < q[2]) \/ (q[1] < p[1] /\ q[2] < p[2])}

Alignments(old, new) ==
    {M \in Matchings(old, new) :
        \A N \in Matchings(old, new) : Cardinality(N) <= Cardinality(M)}

DiffOp(tag, old_index, old_len, new_index, new_len) ==
    [tag |-> tag, old_index |-> old_index, old_len |-> old_len,
     new_index |-> new_index, new_len |-> new_len]

\* The ops of an alignment, from i old and j new lines on: a run of kept
\* lines is an Equal; the lines between two runs are a Delete, an Insert, or
\* (both sides non-empty) a Replace.  Indexes count from 0 as in DiffOp.
RECURSIVE OpsFrom(_, _, _, _, _)
OpsFrom(M, i, j, n, m) ==
    IF i = n /\ j = m THEN <<>>
    ELSE IF <<i + 1, j + 1>> \in M
    THEN LET lens == {l \in 1..(n - i) : \A d \in 0..(l - 1) : <<i + 1 + d, j + 1 + d>> \in M}
             len == CHOOSE l \in lens : \A l2 \in lens : l2 <= l
         IN  <<DiffOp("Equal", i, len, j, len)>> \o OpsFrom(M, i + len, j + len, n, m)
    ELSE LET later == {p \in M : p[1] > i}
             nxt == IF later = {} THEN <<n + 1, m + 1>>
                    ELSE CHOOSE p \in later : \A q \in later : p[1] <= q[1]
             dl == nxt[1] - 1 - i
             il == nxt[2] - 1 - j
         IN  <<DiffOp(IF dl > 0 /\ il > 0 THEN "Replace"
                      ELSE IF dl > 0 THEN "Delete" ELSE "Insert", i, dl, j, il)>>
                \o OpsFrom(M, i + dl, j + il, n, m)

\* The template_affected set of sync_file: the 0-based indexes of the Source
\* lines with template syntax, empty for a file that is not a template.
template_affected(source_lines, is_template) ==
    IF is_template
    THEN {i \in 0..(Len(source_lines) - 1) : has_tera_syntax(source_lines[i + 1])}
    ELSE {}

\* A faulty classify_hunk: an independent edit of Source is not noticed.
classify_hunk_unchecked(source_range, gen_range, old_index, old_len, affected, is_template) ==
    LET has_template ==
            is_template /\ \E i \in old_index..(old_index + old_len - 1) : i \in affected
    IN  IF ~has_template
        THEN [is_safe |-> TRUE, annotation |-> "none"]
        ELSE [is_safe |-> FALSE, annotation |-> "Template syntax"]

\* A faulty classify_hunk: template syntax is not looked at.
classify_hunk_blind(source_range, gen_range, old_index, old_len, affected, is_template) ==
    IF source_range = gen_range
    THEN [is_safe |-> TRUE, annotation |-> "none"]
    ELSE [is_safe |-> FALSE, annotation |-> "Source was independently edited"]

\* classify_hunk
classify_hunk(source_range, gen_range, old_index, old_len, affected, is_template) ==
    LET source_matches_generated == source_range = gen_range
        has_template ==
            is_template /\ \E i \in old_index..(old_index + old_len - 1) : i \in affected
    IN  IF source_matches_generated /\ ~has_template
        THEN [is_safe |-> TRUE, annotation |-> "none"]
        ELSE IF has_template
        THEN [is_safe |-> FALSE, annotation |-> "Template syntax"]
        ELSE [is_safe |-> FALSE, annotation |-> "Source was independently edited"]

SourceLines == split_lines_inclusive(sy.source)

GeneratedLines == split_lines_inclusive(sy.generated)

StagedLines == split_lines_inclusive(sy.staged)

SyncDone(r, result) == [r EXCEPT !.pc = "done", !.result = result]

\* The lines of `lines` at the 0-based indexes index..index+len-1.
Slice(lines, index, len) == SubSeq(lines, index + 1, index + len)

\* `iter().skip(index).take(len)`: what there is of that range.
SkipTake(lines, index, len) ==
    SubSeq(lines, index + 1, IF index + len <= Len(lines) THEN index + len ELSE Len(lines))

\* A faulty structural check: the line counts are not compared.
structural_mismatch_ignored(is_template, source_lines, generated_lines) == FALSE

\* sync_file's structural check: a template whose Source and Generated
\* differ in line count.
structural_mismatch(is_template, source_lines, generated_lines) ==
    is_template /\ Len(source_lines) # Len(generated_lines)

\* sync_file up to the loop over the ops: nothing to do when Generated and
\* Staged are equal; a template whose Source and Generated differ in line
\* count is skipped with a warning; otherwise the diff is taken.
SyncRead ==
    /\ sy.pc = "start"
    /\ IF sy.generated = sy.staged
       THEN sy' = SyncDone(sy, "unchanged")
       ELSE IF structural_mismatch(sy.template, SourceLines, GeneratedLines)
       THEN sy' = SyncDone(sy, "skipped")
       ELSE \E M \in Alignments(GeneratedLines, StagedLines) :
            LET ops == OpsFrom(M, 0, 0, Len(GeneratedLines), Len(StagedLines))
                total_hunks == Cardinality({n \in 1..Len(ops) : ops[n].tag # "Equal"})
            IN  sy' = IF total_hunks = 0 THEN SyncDone(sy, "unchanged")
                      ELSE [sy EXCEPT !.pc = "ops", !.ops = ops, !.k = 1]
    /\ UNCHANGED <<cfg, fs, disk, run, st, faults, hist>>

\* A faulty copy of an Equal region: the rendered lines are taken.
equal_lines_rendered(op) == SkipTake(GeneratedLines, op.old_index, op.old_len)

\* DiffOp::Equal: the Source lines of the region, as far as Source goes.
equal_lines(op) == SkipTake(SourceLines, op.old_index, op.old_len)

\* A faulty staged_range: the last line of the range is left out.
staged_range_short(op) == Slice(StagedLines, op.new_index, op.new_len - 1)

\* staged_range: the Staged lines of an Insert or Replace.
staged_range(op) == Slice(StagedLines, op.new_index, op.new_len)

\* source_range: the Source lines of a Delete or Replace.
source_range(op) == Slice(SourceLines, op.old_index, op.old_len)

\* gen_range: the Generated lines of a Delete or Replace.
gen_range(op) == Slice(GeneratedLines, op.old_index, op.old_len)

\* Prompter::select returns the chosen index or an error (input exhausted
\* or cancelled).
Selected(index) == [ok |-> TRUE, index |-> index]

SelectFailed == [ok |-> FALSE, index |-> 0]

\* A faulty chooser error: it is taken for the answer Apply.
select_failed_applies(sel) == FALSE

\* `prompter.select(..)?`: an error of the chooser leaves sync_file at once.
select_failed(sel) == ~sel.ok

\* One turn of the loop over the ops.  `selection` is the chooser's answer
\* (0 Apply, 1 Skip); a dry run does not ask.  Indexing Source beyond its
\* last line panics; an error of the chooser is returned, and the output
\* lines collected so far are dropped with it.
SyncOp ==
    /\ sy.pc = "ops"
    /\ sy.k <= Len(sy.ops)
    /\ \E sel \in IF sy.dry_run THEN {Selected(1)}
                 ELSE {Selected(0), Selected(1), SelectFailed} :
       LET op == sy.ops[sy.k]
           selection == sel.index
           classification ==
               classify_hunk(source_range(op), gen_range(op), op.old_index, op.old_len,
                             template_affected(SourceLines, sy.template), sy.template)
           asked == IF sy.dry_run THEN sy.asked ELSE sy.asked + 1
           next == [sy EXCEPT !.k = @ + 1,
                              !.choices = Append(@, IF op.tag = "Equal" THEN "Equal"
                                                    ELSE IF ~sel.ok THEN "Failed"
                                                    ELSE IF selection = 0 THEN "Apply"
                                                    ELSE "Skip")]
           failed == [SyncDone(sy, "error") EXCEPT
                         !.asked = asked,
                         !.choices = Append(@, "Failed")]
       IN  IF op.tag = "Equal"
           THEN /\ sel = Selected(1)
                /\ sy' = [next EXCEPT !.output = @ \o equal_lines(op)]
           ELSE IF op.tag = "Insert"
           THEN sy' = IF select_failed(sel) THEN failed ELSE
                      [next EXCEPT
                          !.asked = asked,
                          !.last = [tag |-> "Insert", old_index |-> op.old_index,
                                    old_len |-> 0, default |-> "Apply"],
                          !.output = IF selection = 0 THEN @ \o staged_range(op) ELSE @,
                          !.any_applied = IF selection = 0 THEN TRUE ELSE @]
           ELSE IF op.old_index + op.old_len > Len(SourceLines)
           THEN /\ sel = Selected(1)
                /\ sy' = SyncDone(sy, "panic")
           ELSE sy' = IF select_failed(sel) THEN failed ELSE
                      [next EXCEPT
                          !.asked = asked,
                          !.last = [tag |-> op.tag, old_index |-> op.old_index,
                                    old_len |-> op.old_len,
                                    default |-> IF classification.is_safe
                                                THEN "Apply" ELSE "Skip"],
                          !.output = IF selection # 0 THEN @ \o source_range(op)
                                     ELSE IF op.tag = "Replace" THEN @ \o staged_range(op)
                                     ELSE @,
                          !.any_applied = IF selection = 0 THEN TRUE ELSE @]
    /\ UNCHANGED <<cfg, fs, disk, run, st, faults, hist>>

\* sync_file after the loop: Source is rewritten when a hunk was applied.
SyncWrite ==
    /\ sy.pc = "ops"
    /\ sy.k > Len(sy.ops)
    /\ sy' = IF ~sy.any_applied THEN SyncDone(sy, "unchanged")
             ELSE IF sy.dry_run THEN SyncDone(sy, "unchanged")
             ELSE [SyncDone(sy, "modified") EXCEPT !.written = Flatten(sy.output),
                                                   !.source = Flatten(sy.output)]
    /\ UNCHANGED <<cfg, fs, disk, run, st, faults, hist>>

\* A text whose last line has no newline.
Unterminated == <<"b">>

\* Source holds plain lines and lines with each of the three markers;
\* Generated plain lines, or one line with a marker left in; Staged is what
\* is left after an edit that deleted lines or wrote its own.
SourceTexts == TextsOf(PlainLines \cup MarkedLines) \cup {Unterminated}

GeneratedTexts == TextsOf(PlainLines) \cup {<<"{", "{", "a", NL>>, Unterminated}

StagedTexts == TextsOf({<<"b", NL>>}) \cup {Unterminated}

InitSync ==
    /\ cfg = <<>>
    /\ fs = [p \in {} |-> Absent]
    /\ disk = NoFile
    /\ run = IdleRun
    /\ st = DefaultState
    /\ faults = 0
    /\ hist = [runs |-> 0, tamper |-> 0, quiet |-> TRUE, script |-> <<>>,
               snap |-> NoSnap, edited |-> {},
               prev |-> NoPrev]
    /\ \E template \in BOOLEAN, dry \in BOOLEAN,
          source \in SourceTexts, generated \in GeneratedTexts,
          staged \in StagedTexts :
          sy = [SyncIdle EXCEPT !.pc = "start", !.template = template,
                                !.dry_run = dry, !.source = source,
                                !.before = source,
                                !.generated = generated, !.staged = staged]

NextSync == SyncRead \/ SyncOp \/ SyncWrite

SpecSync == InitSync /\ [][NextSync]_vars

\* The hunk sync has just offered a default for: a Delete or a Replace.
HunkOffered == sy.last.tag \in {"Delete", "Replace"}

LastSource == Slice(SourceLines, sy.last.old_index, sy.last.old_len)

LastGenerated == Slice(GeneratedLines, sy.last.old_index, sy.last.old_len)

\* A line of the hunk's Source range contains "{{", "{%" or "{#".
LastHasMarker ==
    \E n \in 1..Len(LastSource) :
       \E i \in 1..(Len(LastSource[n]) - 1) :
          LastSource[n][i] = "{" /\ LastSource[n][i + 1] \in {"{", "%", "#"}

\* The texts sync is deciding on are still the ones it read.
Deciding == sy.pc = "ops"

\* C9: for a Delete or Replace hunk whose Source lines hold no template
\* marker, the default action offered is Apply exactly when the Source lines
\* at the hunk's range equal the Generated lines at that range, and Skip
\* when they differ.
C9_DefaultWithoutMarker ==
    Deciding /\ HunkOffered /\ ~LastHasMarker
    => /\ sy.last.default = "Apply" <=> LastSource = LastGenerated
       /\ LastSource # LastGenerated => sy.last.default = "Skip"

\* A hunk without a marker, in a file that is not a template, whose Source
\* lines were edited: Skip is the default.
C9_Witness ==
    /\ Deciding /\ HunkOffered /\ ~LastHasMarker
    /\ LastSource # LastGenerated /\ sy.last.default = "Skip"
    /\ ~sy.template

\* C10 as stated: whatever the template flag, a Delete or Replace hunk whose
\* Source range holds a line with a template marker is never offered Apply
\* as the default.
C10_MarkerNeverApply ==
    Deciding /\ HunkOffered /\ LastHasMarker => sy.last.default # "Apply"

\* C10 amended: for a file whose template flag is set, a Delete or Replace
\* hunk whose Source range holds a line with a template marker is never
\* offered Apply as the default.
C10_TemplateMarkerNeverApply ==
    Deciding /\ HunkOffered /\ LastHasMarker /\ sy.template
    => sy.last.default # "Apply"

\* A template file, a hunk over a marker line whose Source and Generated
\* ranges are equal, and Skip as the default.
C10_Witness ==
    /\ Deciding /\ HunkOffered /\ LastHasMarker /\ sy.template
    /\ LastSource = LastGenerated
    /\ sy.last.default = "Skip"

\* The lines of the Source text as sync_file read it.
BeforeLines == split_lines_inclusive(sy.before)

\* What the k-th op must contribute to the rewritten Source: the Source
\* lines of its range when the region is Equal or the hunk was skipped,
\* the Staged lines of its range when the hunk was applied.
PieceOf(k) ==
    IF sy.choices[k] \in {"Equal", "Skip"}
    THEN SubSeq(BeforeLines, sy.ops[k].old_index + 1,
                sy.ops[k].old_index + sy.ops[k].old_len)
    ELSE SubSeq(StagedLines, sy.ops[k].new_index + 1,
                sy.ops[k].new_index + sy.ops[k].new_len)

RECURSIVE PiecesFrom(_)
PiecesFrom(k) ==
    IF k > Len(sy.choices) THEN <<>> ELSE PieceOf(k) \o PiecesFrom(k + 1)

\* C11: when sync rewrites a template file, every Source line inside an
\* Equal range or inside a skipped hunk is written back verbatim from
\* Source (not from Generated), in place, and the applied hunks contribute
\* the Staged lines: the text written is the concatenation of these pieces.
C11_UntouchedLinesFromSource ==
    sy.pc = "done" /\ sy.result = "modified" /\ sy.template
    => /\ Len(sy.choices) = Len(sy.ops)
       /\ sy.written = Flatten(PiecesFrom(1))

\* Source `{{a` / `a`, Generated `b` / `a`, Staged `b` / `b`, the one hunk
\* (a Replace of the second line) applied: Source is now `{{a` / `b`.
C11_Witness ==
    /\ sy.pc = "done" /\ sy.result = "modified" /\ sy.template
    /\ sy.before = <<"{", "{", "a", NL, "a", NL>>
    /\ sy.generated = <<"b", NL, "a", NL>>
    /\ sy.staged = <<"b", NL, "b", NL>>
    /\ sy.choices = <<"Equal", "Apply">>
    /\ sy.written = <<"{", "{", "a", NL, "b", NL>>

\* C12: if Source equals Generated and every hunk of the diff is applied,
\* then after sync the Source content equals the Staged content.
C12_AllAppliedGivesStaged ==
    /\ sy.pc = "done" /\ sy.before = sy.generated
    /\ \A k \in 1..Len(sy.choices) : sy.choices[k] \in {"Equal", "Apply"}
    => /\ sy.result \in {"modified", "unchanged"}
       /\ sy.source = sy.staged
       /\ sy.result = "modified" => sy.written = sy.staged

\* Source equal to Generated, a diff with an Equal region and a hunk, the
\* hunk applied.
C12_Witness ==
    /\ sy.pc = "done" /\ sy.before = sy.generated /\ sy.result = "modified"
    /\ Len(sy.choices) >= 2
    /\ \A k \in 1..Len(sy.choices) : sy.choices[k] # "Skip"
    /\ sy.source = sy.staged

(***************************************************************************)
(* sync::run on the dotfiles tree: generate, stage and sync over the same  *)
(* selection, the staged copy or the Source edited from outside in         *)
(* between.  sync_file reads the three files of an entry, goes through the *)
(* ops as above, and writes Source back.                                   *)
(***************************************************************************)
\* A faulty write-back: Source is replaced by a newly created file.
write_source_fresh(f, p, output, fault) ==
    IF fault # "none"
    THEN Err(f, <<Frame("Failed to write source", {p}), Frame("os error", {})>>)
    ELSE Ok([f EXCEPT ![resolve_path(f, p)] = File(output)])

\* A faulty write-back: the staged copy is overwritten as well.
write_source_both(f, p, output, fault) ==
    IF fault # "none"
    THEN Err(f, <<Frame("Failed to write source", {p}), Frame("os error", {})>>)
    ELSE Ok([f EXCEPT ![resolve_path(f, p)] = FileWithMode(output, @.mode),
                      ![P(StagedDir, p.name)] = FileWithMode(output, @.mode)])

\* sync_file's write-back: file_mode, write, set_file_mode on the Source
\* path.  fault is "none", "mode", "write" or "chmod": the call that fails.
write_source(f, p, output, fault) ==
    LET mode == file_mode(f, p)
    IN  IF fault = "mode" \/ ~mode.ok
        THEN Err(f, <<Frame("Failed to read metadata", {p}), Frame("os error", {})>>)
        ELSE LET w == with_context(
                          write(f, p, output, IF fault = "write" THEN fault ELSE "none"),
                          Frame("Failed to write source", {p}))
             IN  IF ~w.ok THEN w
                 ELSE with_context(
                          set_file_mode(w.fs, p, mode.mode,
                                        IF fault = "chmod" THEN fault ELSE "none"),
                          Frame("Failed to set permissions", {p}))

\* sync::run up to the loop.
SyncStart(files, dry) ==
    /\ CanStart
    /\ MayRun(RunDesc("sync", files, FALSE, dry))
    /\ LET entries == filter_files(cfg, files)
           r == NewRun("sync", entries, FALSE, FALSE, dry)
       IN  run' = IF entries = <<>> THEN Finished(r, bail_unmatched(files))
                  ELSE [r EXCEPT !.pc = "y_entry"]
    /\ hist' = Started
    /\ UNCHANGED <<cfg, fs, disk, st, faults, sy>>

\* The head of the loop of sync::run and the head of sync_file: the three
\* files must exist and are read; and the end of sync::run.
SyncEntry ==
    /\ run.pc = "y_entry"
    /\ IF run.i > Len(run.entries)
       THEN /\ run' = Finished(run, Collected("Failed to sync", run.errors))
            /\ UNCHANGED <<sy, faults>>
       ELSE LET source_path == source_path_for(CurEntry.src)
                generated_path == generated_path_for(CurEntry.src)
                staged_path == staged_path_for(CurEntry.src)
            IN  IF \/ ~exists(fs, generated_path) \/ ~exists(fs, staged_path)
                   \/ ~exists(fs, source_path)
                THEN /\ run' = [run EXCEPT !.i = @ + 1, !.errors = @ + 1]
                     /\ UNCHANGED <<sy, faults>>
                ELSE \E fault \in FaultChoices({"read"}) :
                     /\ faults' = Spend(fault)
                     /\ IF fault # "none"
                        THEN /\ run' = [run EXCEPT !.i = @ + 1, !.errors = @ + 1]
                             /\ UNCHANGED sy
                        ELSE /\ run' = [run EXCEPT !.pc = "y_file"]
                             /\ sy' = [SyncIdle EXCEPT
                                          !.pc = "start",
                                          !.template = CurEntry.template,
                                          !.dry_run = run.dry_run,
                                          !.source = read(fs, source_path).content,
                                          !.before = read(fs, source_path).content,
                                          !.generated = read(fs, generated_path).content,
                                          !.staged = read(fs, staged_path).content]
    /\ UNCHANGED <<cfg, fs, disk, st, hist>>

\* The end of sync_file and its return to sync::run: the write-back when a
\* hunk was applied, Ok(true) counted as modified, an error (of the chooser
\* or of the write-back) collected.  A panic ends the process.
SyncReturn ==
    /\ run.pc = "y_file"
    /\ sy.pc = "done"
    /\ IF sy.result = "panic"
       THEN /\ run' = [Finished(run, <<Frame("panic", {})>>) EXCEPT !.result = "panic"]
            /\ UNCHANGED <<fs, faults>>
       ELSE IF sy.result = "error"
       THEN /\ run' = [run EXCEPT !.i = @ + 1, !.pc = "y_entry", !.errors = @ + 1]
            /\ UNCHANGED <<fs, faults>>
       ELSE IF sy.result # "modified"
       THEN /\ run' = [run EXCEPT !.i = @ + 1, !.pc = "y_entry"]
            /\ UNCHANGED <<fs, faults>>
       ELSE \E fault \in FaultChoices({"mode", "write", "chmod"}) :
            LET r == write_source(fs, source_path_for(CurEntry.src), sy.written, fault)
            IN  /\ fs' = r.fs
                /\ faults' = Spend(fault)
                /\ run' = [run EXCEPT !.i = @ + 1, !.pc = "y_entry",
                                      !.modified = IF r.ok THEN @ + 1 ELSE @,
                                      !.errors = IF r.ok THEN @ ELSE @ + 1]
    /\ UNCHANGED <<cfg, disk, st, hist, sy>>

\* Someone edits a file of the tree between two runs: the staged copy
\* (through the deployed symlink) or the Source.
Edit(p, text) ==
    /\ CanStart
    /\ hist.script # <<>>
    /\ hist.tamper < MaxTamper
    /\ p \in DOMAIN fs
    /\ fs[p].kind = "file"
    /\ fs[p].content # text
    /\ fs' = [fs EXCEPT ![p] = FileWithMode(text, @.mode)]
    /\ hist' = [hist EXCEPT !.tamper = @ + 1, !.quiet = FALSE,
                            !.edited = @ \cup {p}]
    /\ UNCHANGED <<cfg, disk, run, st, faults, sy>>

\* The Source texts of entry a: plain lines; an expression on the first
\* line; a directive line, which renders to nothing.
RunSources ==
    { <<"a", NL, "b", NL>>,
      <<"{", "{", "a", NL, "b", NL>>,
      <<"{", "%", NL, "a", NL>> }

\* What an edit leaves in the staged copy: a line deleted, a line changed,
\* a line added.
StagedEdits ==
    { <<"a", NL>>, <<"a", NL, "a", NL>>, <<"a", NL, "b", NL, "b", NL>> }

\* What an edit leaves in Source.
SourceEdits == { <<"b", NL>> }

\* One pass: generate, stage, sync over the same selection.
Pass(files, dry) ==
    << RunDesc("generate", files, FALSE, FALSE),
       RunDesc("stage", files, FALSE, FALSE),
       RunDesc("sync", files, FALSE, dry) >>

\* Every entry is deployed (the targets are symlinks to the staged paths and
\* the state file lists them); nothing is generated or staged yet.
InitSyncRun ==
    /\ cfg \in Configs
    /\ \E text \in RunSources, mode \in {DefaultMode, PrivateMode} :
          fs = [InitFs(cfg, [s \in Srcs |-> 0],
                       [t \in CfgTargets |->
                           Symlink(staged_path_for(
                               cfg[CHOOSE i \in 1..Len(cfg) :
                                       t = expand_tilde(target(cfg[i]))].src))])
                EXCEPT ![source_path_for("a")] = FileWithMode(text, mode)]
    /\ disk = StateFile(Serialize(DeployedUpTo(cfg, Len(cfg))))
    /\ run = IdleRun
    /\ st = DefaultState
    /\ faults = MaxFaults
    /\ \E files \in Selections, dry \in BOOLEAN :
          hist = [runs |-> MaxRuns, tamper |-> 0, quiet |-> TRUE,
                  script |-> Pass(files, dry), snap |-> NoSnap, edited |-> {},
               prev |-> NoPrev]
    /\ sy = SyncIdle

NextSyncRun ==
    \/ \E files \in Selections, dry \in BOOLEAN : GenerateStart(files, dry)
    \/ GenerateEntry
    \/ \E files \in Selections, dry \in BOOLEAN : StageStart(files, dry)
    \/ StageEntry
    \/ \E files \in Selections, dry \in BOOLEAN : SyncStart(files, dry)
    \/ SyncEntry
    \/ SyncRead
    \/ SyncOp
    \/ SyncWrite
    \/ SyncReturn
    \/ \E text \in StagedEdits : Edit(staged_path_for("a"), text)
    \/ \E text \in SourceEdits : Edit(source_path_for("a"), text)

SpecSyncRun == InitSyncRun /\ [][NextSyncRun]_vars

(***************************************************************************)
(* Properties of a sync run.                                               *)
(***************************************************************************)
\* The run is a sync in progress.
Syncing == run.op = "sync" /\ run.pc \notin {"idle", "done"}

\* The text holds none of "{{", "{%", "{#".
NoMarkers(text) ==
    \A i \in 1..(Len(text) - 1) : ~(text[i] = "{" /\ text[i + 1] \in {"{", "%", "#"})

CurSource == source_path_for(CurEntry.src)

\* A hunk of the current file was applied.
Applied == \E k \in 1..Len(sy.choices) : sy.choices[k] = "Apply"

\* C13: for a file without template syntax, generate, then stage, then sync,
\* with no edit of a staged copy in between and no failure, is a no-op: sync
\* asks the chooser nothing and writes nothing, no file of the tree changes,
\* and the file is neither counted as modified nor as failed.
C13_Step ==
    /\ Syncing /\ run.i \in 1..Len(run.entries)
    /\ \A s \in Srcs : staged_path_for(s) \notin hist.edited
    /\ faults = MaxFaults /\ faults' = faults
    /\ NoMarkers(fs[CurSource].content)
    => /\ fs' = fs
       /\ sy'.asked = 0
       /\ sy'.result \in {"none", "unchanged"}
       /\ run'.errors = 0
       /\ run'.modified = 0

C13_NoDriftNoOp == [][C13_Step]_vars

\* Sync has found Generated equal to Staged for a file without template
\* syntax that was generated and staged just before.
C13_Witness ==
    /\ Syncing /\ run.pc = "y_file" /\ ~run.dry_run
    /\ hist.edited = {} /\ faults = MaxFaults
    /\ NoMarkers(fs[CurSource].content)
    /\ sy.pc = "done" /\ sy.result = "unchanged" /\ sy.asked = 0
    /\ sy.generated = sy.staged /\ sy.generated # <<>>

\* C14: when the file is a template and Source and Generated differ in line
\* count, sync of the file asks the chooser nothing, changes no file, and
\* the file is not counted as failed.
C14_Step ==
    /\ Syncing /\ run.pc = "y_file"
    /\ sy.template /\ Len(BeforeLines) # Len(GeneratedLines)
    => /\ fs' = fs
       /\ sy'.asked = 0
       /\ sy'.result \in {"none", "skipped", "unchanged"}
       /\ run'.errors = run.errors
       /\ run'.result # "err"
       /\ run'.pc \in {"y_file", "y_entry"}

C14_MismatchIsSkipped == [][C14_Step]_vars

\* A template whose staged copy was edited and whose Source has more lines
\* than Generated: sync_file has returned without asking.
C14_Witness ==
    /\ Syncing /\ run.pc = "y_file" /\ ~run.dry_run
    /\ sy.template /\ Len(BeforeLines) > Len(GeneratedLines)
    /\ sy.generated # sy.staged
    /\ sy.pc = "done" /\ sy.result = "skipped" /\ sy.asked = 0

\* C15: a sync run changes a Source file only when a hunk of that file was
\* applied and the run is not a dry run, and the file then keeps its
\* permission bits; with a hunk applied, no dry run, every hunk answered
\* by the chooser and no I/O failure, Source is written with the concatenated output lines; with every hunk
\* skipped Source is not written.
C15_Step ==
    Syncing =>
       /\ \A s \in Srcs :
             fs'[source_path_for(s)] # fs[source_path_for(s)]
             => /\ run.pc = "y_file" /\ s = CurEntry.src
                /\ Applied /\ ~run.dry_run
                /\ fs'[source_path_for(s)].kind = "file"
                /\ fs'[source_path_for(s)].mode = fs[source_path_for(s)].mode
       /\ run.pc = "y_file" /\ sy.pc = "done" /\ sy.result \notin {"panic", "error"}
             /\ Applied /\ ~run.dry_run /\ faults' = faults
          => /\ fs'[CurSource] = FileWithMode(Flatten(sy.output), fs[CurSource].mode)
             /\ run'.modified = run.modified + 1
       /\ run.pc = "y_file" /\ (~Applied \/ run.dry_run)
          => run'.modified = run.modified

C15_WritesWhenApplied == [][C15_Step]_vars

\* A Source with mode 0o600 was rewritten and still has mode 0o600.
C15_Witness ==
    /\ Syncing /\ run.pc = "y_entry" /\ run.modified = 1
    /\ fs[source_path_for("a")].mode = PrivateMode
    /\ fs[source_path_for("a")].content = sy.written
    /\ sy.written # sy.before

\* C16: a sync run changes nothing but Source files of the selected
\* entries: every other path of the tree (.generated/, .staged/, the
\* deployment targets), the state file and the State stay as they are.
C16_Step ==
    Syncing =>
       /\ disk' = disk
       /\ st' = st
       /\ \A p \in DOMAIN fs :
             p \notin {source_path_for(run.entries[i].src) : i \in 1..Len(run.entries)}
             => fs'[p] = fs[p]

C16_OnlySourceWritten == [][C16_Step]_vars

\* A sync run that rewrote a Source has ended; the staged copy differs from
\* the new Source, the target is still the symlink and the state file still
\* lists the entries.
C16_Witness ==
    /\ run.op = "sync" /\ run.pc = "done" /\ run.modified >= 1
    /\ fs[staged_path_for("a")].content # fs[source_path_for("a")].content
    /\ IsLinkTo(fs, expand_tilde(target(cfg[1])), staged_path_for(cfg[1].src))
    /\ disk = StateFile(Serialize(DeployedUpTo(cfg, Len(cfg))))


(***************************************************************************)
(* clean (ops/clean.rs).  The two trees hold one file per src; a walk of a *)
(* tree gives its entries in the order of the directory, which the         *)
(* operating system chooses.                                               *)
(***************************************************************************)
\* The entries found under a tree.
TreeEntries(f, dir) == {p \in {P(dir, <<s>>) : s \in Srcs} : f[p].kind # "absent"}

Orders(S) == {q \in [1..Cardinality(S) -> S] : Range(q) = S}

\* Fs::walk_dir with min_depth 1: every possible listing of the tree.
walk_dir(f, dir) == Orders(TreeEntries(f, dir))

\* entry.path.strip_prefix(dir)
relative(dir, p) == CHOOSE s \in Srcs : P(dir, <<s>>) = p

\* clean.rs is_symlink_to: read_link succeeds and gives exactly the path.
is_symlink_to(f, path, expected_target) ==
    LET l == read_link(f, path)
    IN  l.ok /\ l.dest = expected_target

\* A deployed_srcs that trusts State without looking at the target.
deployed_srcs_listed(s, f) == {s.deployed[i].src : i \in 1..Len(s.deployed)}

\* clean_orphans: the srcs of the DeployedEntries whose target is at this
\* moment a symlink to the staged file.
deployed_srcs(s, f) ==
    {s.deployed[i].src : i \in
        {j \in 1..Len(s.deployed) :
            is_symlink_to(f, expand_tilde(s.deployed[j].target),
                          staged_path_for(s.deployed[j].src))}}

\* config.files.iter().map(|f| f.src)
configured_srcs(c) == {c[i].src : i \in 1..Len(c)}

\* Whether clean_orphans_in_dir goes on to remove the entry at p.
is_orphan(dir, p, c, extra_check) ==
    /\ relative(dir, p) \notin configured_srcs(c)
    /\ extra_check

\* A faulty turn: the orphan is removed in a dry run too.
clean_orphans_entry_eager(f, dir, p, c, extra_check, dry_run, fault) ==
    IF ~is_orphan(dir, p, c, extra_check)
    THEN [fs |-> f, failed |-> FALSE, count |-> 0]
    ELSE LET r == remove_file(f, p, fault)
         IN  [fs |-> r.fs, failed |-> ~r.ok, count |-> 1]

\* One turn of the loop of clean_orphans_in_dir: what becomes of the tree,
\* whether an error was collected, and the count.
clean_orphans_entry(f, dir, p, c, extra_check, dry_run, fault) ==
    IF ~is_orphan(dir, p, c, extra_check)
    THEN [fs |-> f, failed |-> FALSE, count |-> 0]
    ELSE IF dry_run THEN [fs |-> f, failed |-> FALSE, count |-> 1]
    ELSE LET r == remove_file(f, p, fault)
         IN  [fs |-> r.fs, failed |-> ~r.ok, count |-> 1]

\* `janus clean`: the flags it was given.
CleanFlags(generated, orphans) == [generated |-> generated, orphans |-> orphans]

\* clean::run up to the first walk.
CleanStart(generated, orphans, dry) ==
    /\ CanStart
    /\ MayRun(RunDesc("clean", CleanFlags(generated, orphans), FALSE, dry))
    /\ LET r == [NewRun("clean", <<>>, FALSE, FALSE, dry) EXCEPT
                    !.generated = generated, !.orphans = orphans]
       IN  IF ~generated /\ ~orphans
           THEN run' = Finished(r, <<Frame("Specify --generated, --orphans, or both", {})>>)
           ELSE \E entries \in walk_dir(fs, GeneratedDir) :
                   run' = [r EXCEPT !.walk = entries,
                                    !.pc = IF generated THEN "c_generated"
                                           ELSE "c_orphans_generated"]
    /\ hist' = Started
    /\ UNCHANGED <<cfg, fs, disk, st, faults, sy>>

\* The loop of clean_generated and the way on from it.
CleanGenerated ==
    /\ run.pc = "c_generated"
    /\ IF run.i > Len(run.walk)
       THEN /\ IF run.orphans
               THEN \E entries \in walk_dir(fs, GeneratedDir) :
                       run' = [run EXCEPT !.pc = "c_orphans_generated", !.i = 1,
                                          !.walk = entries]
               ELSE run' = Finished(run, Collected("Failed to clean", run.errors))
            /\ UNCHANGED <<fs, faults>>
       ELSE LET p == run.walk[run.i]
                is_file == fs[p].kind = "file"
            IN  IF run.dry_run
                THEN /\ run' = [run EXCEPT !.i = @ + 1,
                                           !.succeeded = IF is_file THEN @ + 1 ELSE @]
                     /\ UNCHANGED <<fs, faults>>
                ELSE IF is_file
                THEN \E fault \in FaultChoices({"remove"}) :
                     LET r == remove_file(fs, p, fault)
                     IN  /\ fs' = r.fs
                         /\ faults' = Spend(fault)
                         /\ run' = [run EXCEPT !.i = @ + 1,
                                               !.succeeded = IF r.ok THEN @ + 1 ELSE @,
                                               !.errors = IF r.ok THEN @ ELSE @ + 1]
                ELSE /\ run' = [run EXCEPT !.i = @ + 1]
                     /\ UNCHANGED <<fs, faults>>
    /\ UNCHANGED <<cfg, disk, st, hist, sy>>

\* clean_orphans_in_dir on .generated/, then State::load and the listing of
\* .staged/.  A State that cannot be loaded ends the run with that error.
CleanOrphansGenerated ==
    /\ run.pc = "c_orphans_generated"
    /\ IF run.i > Len(run.walk)
       THEN \E fault \in FaultChoices({"load"}) :
            /\ faults' = Spend(fault)
            /\ IF fault # "none"
               THEN /\ run' = Finished(run, <<Frame("Failed to read state file", {})>>)
                    /\ UNCHANGED st
               ELSE /\ st' = load(disk)
                    /\ \E entries \in walk_dir(fs, StagedDir) :
                          run' = [run EXCEPT !.pc = "c_orphans_staged", !.i = 1,
                                             !.walk = entries,
                                             !.keep = deployed_srcs(load(disk), fs)]
            /\ UNCHANGED fs
       ELSE LET p == run.walk[run.i]
            IN  \E fault \in IF is_orphan(GeneratedDir, p, cfg, TRUE) /\ ~run.dry_run
                             THEN FaultChoices({"remove"}) ELSE {"none"} :
                LET r == clean_orphans_entry(fs, GeneratedDir, p, cfg, TRUE,
                                             run.dry_run, fault)
                IN  /\ fs' = r.fs
                    /\ faults' = Spend(fault)
                    /\ run' = [run EXCEPT !.i = @ + 1,
                                          !.succeeded = @ + r.count,
                                          !.errors = IF r.failed THEN @ + 1 ELSE @]
                    /\ UNCHANGED st
    /\ UNCHANGED <<cfg, disk, hist, sy>>

\* clean_orphans_in_dir on .staged/, and the end of clean::run.
CleanOrphansStaged ==
    /\ run.pc = "c_orphans_staged"
    /\ IF run.i > Len(run.walk)
       THEN /\ run' = Finished(run, Collected("Failed to clean", run.errors))
            /\ UNCHANGED <<fs, faults>>
       ELSE LET p == run.walk[run.i]
                extra_check == relative(StagedDir, p) \notin run.keep
            IN  \E fault \in IF is_orphan(StagedDir, p, cfg, extra_check) /\ ~run.dry_run
                             THEN FaultChoices({"remove"}) ELSE {"none"} :
                LET r == clean_orphans_entry(fs, StagedDir, p, cfg, extra_check,
                                             run.dry_run, fault)
                IN  /\ fs' = r.fs
                    /\ faults' = Spend(fault)
                    /\ run' = [run EXCEPT !.i = @ + 1,
                                          !.succeeded = @ + r.count,
                                          !.errors = IF r.failed THEN @ + 1 ELSE @]
    /\ UNCHANGED <<cfg, disk, st, hist, sy>>

(***************************************************************************)
(* One generate, stage or clean run on a tree in which each src has been   *)
(* taken some way, under a configuration that may have dropped a src that  *)
(* an earlier configuration had and deployed.                              *)
(***************************************************************************)
\* The configuration of the earlier deploy.
EarlierConfig ==
    << FileEntry("a", P(ConfigDir, <<"x", "conf">>), TRUE),
       FileEntry("b", NoPath, FALSE) >>

\* How far each src has been taken: 0 nothing, 1 source, 2 generated,
\* 3 staged.
CleanLevels == {lv \in [Srcs -> 0..3] : lv["a"] \in {1, 3}}

\* The earlier deploy: none; still live; or the target of b has since been
\* replaced by a file.
Deployments == {"no", "live", "replaced"}

CleanSelections == Selections \cup {Patterns(<<"b">>)}

TreeFs(lv, dep) ==
    [p \in AllPaths |->
        IF \E s \in Srcs : p = source_path_for(s) /\ lv[s] >= 1
          THEN File(SourceText((CHOOSE s \in Srcs : p = source_path_for(s))))
        ELSE IF \E s \in Srcs : p = generated_path_for(s) /\ lv[s] >= 2
          THEN File(Produced(EntryOf(EarlierConfig,
                                     CHOOSE s \in Srcs : p = generated_path_for(s))))
        ELSE IF \E s \in Srcs : p = staged_path_for(s) /\ lv[s] >= 3
          THEN File(Produced(EntryOf(EarlierConfig,
                                     CHOOSE s \in Srcs : p = staged_path_for(s))))
        ELSE IF dep # "no" /\ p = expand_tilde(target(EarlierConfig[1]))
          THEN Symlink(staged_path_for("a"))
        ELSE IF dep = "live" /\ p = expand_tilde(target(EarlierConfig[2]))
          THEN Symlink(staged_path_for("b"))
        ELSE IF dep = "replaced" /\ p = expand_tilde(target(EarlierConfig[2]))
          THEN File(<<"theirs">>)
        ELSE IF p = OtherPath THEN File(<<"other">>)
        ELSE Absent]

InitClean ==
    /\ cfg \in Configs
    /\ \E lv \in CleanLevels, dep \in Deployments :
          /\ dep # "no" => \A s \in Srcs : lv[s] = 3
          /\ fs = TreeFs(lv, dep)
          /\ disk = IF dep = "no" THEN NoFile
                    ELSE StateFile(Serialize(DeployedUpTo(EarlierConfig,
                                                          Len(EarlierConfig))))
    /\ run = IdleRun
    /\ st = DefaultState
    /\ faults = MaxFaults
    /\ hist = [runs |-> 0, tamper |-> 0, quiet |-> TRUE, script |-> <<>>,
               snap |-> NoSnap, edited |-> {},
               prev |-> NoPrev]
    /\ sy = SyncIdle

NextClean ==
    \/ \E files \in CleanSelections, dry \in BOOLEAN : GenerateStart(files, dry)
    \/ GenerateEntry
    \/ \E files \in CleanSelections, dry \in BOOLEAN : StageStart(files, dry)
    \/ StageEntry
    \/ \E generated \in BOOLEAN, orphans \in BOOLEAN, dry \in BOOLEAN :
          CleanStart(generated, orphans, dry)
    \/ CleanGenerated
    \/ CleanOrphansGenerated
    \/ CleanOrphansStaged

SpecClean == InitClean /\ [][NextClean]_vars


(***************************************************************************)
(* Properties of generate, stage and clean runs.                           *)
(***************************************************************************)
Collecting == run.op \in {"generate", "stage", "clean"}

\* The list the run is going through and the words its error starts with.
CurList == IF run.op = "clean" THEN run.walk ELSE run.entries

FailedTo ==
    IF run.op = "generate" THEN "Failed to generate"
    ELSE IF run.op = "stage" THEN "Failed to stage"
    ELSE "Failed to clean"

InPass ==
    /\ Collecting
    /\ run.pc \in {"g_entry", "s_entry", "c_generated", "c_orphans_generated",
                   "c_orphans_staged"}

\* The file the current turn of generate or stage reads, and the one it
\* writes.
TurnFrom ==
    IF run.op = "generate" THEN source_path_for(CurEntry.src)
    ELSE generated_path_for(CurEntry.src)

TurnTo ==
    IF run.op = "generate" THEN generated_path_for(CurEntry.src)
    ELSE staged_path_for(CurEntry.src)

\* What the current turn has to leave at TurnTo.
TurnOutput ==
    FileWithMode(IF run.op = "generate" /\ CurEntry.template
                 THEN Render(read(fs, TurnFrom).content)
                 ELSE read(fs, TurnFrom).content,
                 file_mode(fs, TurnFrom).mode)

\* Whether the current turn of clean is to remove its entry.
TurnRemoves ==
    LET p == run.walk[run.i]
    IN  IF run.pc = "c_generated" THEN fs[p].kind = "file"
        ELSE IF run.pc = "c_orphans_generated"
        THEN relative(GeneratedDir, p) \notin configured_srcs(cfg)
        ELSE /\ relative(StagedDir, p) \notin configured_srcs(cfg)
             /\ relative(StagedDir, p) \notin run.keep

\* The turn fails: what it reads is missing, or one of its calls fails.
TurnFails ==
    \/ run.op # "clean" /\ ~exists(fs, TurnFrom)
    \/ faults' # faults

\* C17 as it is written: a finished generate, stage or clean run has
\* returned an error if and only if at least one of its files failed, and
\* the error counts the files that failed.
C17_ErrorIffFileFailed ==
    Collecting /\ run.pc = "done"
    => /\ run.result = "err" <=> run.errors > 0
       /\ run.result = "err"
          => run.err = <<Frame(FailedTo, {}), Frame("count", {run.errors})>>

\* C17, amended: inside a pass over the selected files, a turn that fails
\* adds one to the collected errors and the run goes on to the next file; a
\* turn that does not fail leaves its file written (removed, for clean),
\* whatever failed before it; and a run whose passes are through returns an
\* error if and only if an error was collected, with their number in the
\* message.  (A run can also end on an error of its own: no file selected,
\* no flag given to clean, State not loadable.)
C17_Step ==
    InPass =>
       IF run.i <= Len(CurList)
       THEN /\ run'.pc = run.pc /\ run'.i = run.i + 1
            /\ run'.errors = IF TurnFails THEN run.errors + 1 ELSE run.errors
            /\ ~TurnFails /\ ~run.dry_run
               => IF run.op = "clean"
                  THEN TurnRemoves => fs'[run.walk[run.i]] = Absent
                  ELSE fs'[TurnTo] = TurnOutput
            /\ \A p \in DOMAIN fs :
                  p # (IF run.op = "clean" THEN run.walk[run.i] ELSE TurnTo)
                  => fs'[p] = fs[p]
       ELSE run'.pc = "done" /\ faults' = faults
            => /\ run'.result = "err" <=> run.errors > 0
               /\ run'.result = "ok" <=> run.errors = 0
               /\ run.errors > 0
                  => run'.err = <<Frame(FailedTo, {}), Frame("count", {run.errors})>>

C17_ErrorCollection == [][C17_Step]_vars

\* A generate run over two files has ended: the first file failed and is
\* not there, the second was written all the same, and the error counts one
\* file.
C17_Witness ==
    /\ run.op = "generate" /\ run.pc = "done" /\ ~run.dry_run
    /\ Len(run.entries) = 2
    /\ run.errors = 1 /\ run.succeeded = 1
    /\ ~exists(fs, generated_path_for(run.entries[1].src))
    /\ exists(fs, generated_path_for(run.entries[2].src))
    /\ run.result = "err"
    /\ run.err = <<Frame("Failed to generate", {}), Frame("count", {1})>>


(***************************************************************************)
(* Properties of clean --orphans.                                          *)
(***************************************************************************)
\* The persisted State has a DeployedEntry for src whose target is at this
\* moment a symlink to the staged file of src.
LiveDeployed(src) ==
    \E i \in 1..Len(load(disk).deployed) :
       /\ load(disk).deployed[i].src = src
       /\ IsLinkTo(fs, expand_tilde(load(disk).deployed[i].target),
                   staged_path_for(src))

InOrphans ==
    /\ run.op = "clean"
    /\ run.pc \in {"c_orphans_generated", "c_orphans_staged"}

\* C18: in the orphans passes of clean, a file whose relative path is a
\* configured src is left alone in both trees; a staged file that is not
\* configured but live-deployed is left alone; every other file met under
\* .generated/ or .staged/ is deleted (unless the removal itself fails or
\* the run is a dry run); and when such a run has ended without an error,
\* no unconfigured file is left under .generated/, and under .staged/ only
\* the live-deployed ones.
C18_Step ==
    InOrphans =>
       IF run.i <= Len(run.walk)
       THEN LET p == run.walk[run.i]
                dir == IF run.pc = "c_orphans_generated" THEN GeneratedDir
                       ELSE StagedDir
                src == relative(dir, p)
            IN  IF src \in {cfg[i].src : i \in 1..Len(cfg)}
                THEN fs' = fs
                ELSE IF dir = StagedDir /\ LiveDeployed(src)
                THEN fs' = fs
                ELSE /\ ~run.dry_run /\ faults' = faults => fs'[p] = Absent
                     /\ \A q \in DOMAIN fs : q # p => fs'[q] = fs[q]
       ELSE /\ fs' = fs
            /\ run'.pc = "done" /\ run'.result = "ok" /\ ~run.dry_run
               => \A src \in Srcs \ {cfg[i].src : i \in 1..Len(cfg)} :
                     /\ fs[generated_path_for(src)] = Absent
                     /\ fs[staged_path_for(src)] = Absent \/ LiveDeployed(src)

C18_OrphansCleaned == [][C18_Step]_vars

\* clean --orphans has ended without an error under a configuration that
\* no longer lists b: the generated b is gone, the staged b is still there
\* because the target of b is a symlink to it, and both files of a are
\* there.
C18_Witness ==
    /\ run.op = "clean" /\ run.orphans /\ ~run.generated /\ ~run.dry_run
    /\ run.pc = "done" /\ run.result = "ok"
    /\ "b" \notin {cfg[i].src : i \in 1..Len(cfg)}
    /\ LiveDeployed("b")
    /\ fs[generated_path_for("b")] = Absent
    /\ fs[staged_path_for("b")].kind = "file"
    /\ fs[generated_path_for("a")].kind = "file"
    /\ fs[staged_path_for("a")].kind = "file"
    /\ run.succeeded = 1


(***************************************************************************)
(* Properties of undeploy and of a failing save.                           *)
(***************************************************************************)
\* The target of entry e is what undeploy has to leave.
Undeployed(f, e, rm) ==
    LET t == expand_tilde(target(e))
    IN  IF rm THEN f[t] = Absent
        ELSE /\ f[t].kind = "file"
             /\ f[staged_path_for(e.src)].kind = "file"
             /\ f[t].content = f[staged_path_for(e.src)].content

Persisted(d, src) == \E i \in 1..Len(load(d).deployed) : load(d).deployed[i].src = src

\* C19: when undeploy has undeployed a file and saved State, the target is
\* a regular file with the content of the staged file (absent, with
\* remove_file) and the state file has no DeployedEntry for the src; and
\* when a run that undeployed every selected entry returns Ok, this holds
\* for all of them.
C19_Step ==
    run.op = "undeploy" =>
       /\ run.pc = "u_save" /\ run'.pc = "u_entry"
          => /\ Undeployed(fs', CurEntry, run.remove_file)
             /\ ~Persisted(disk', CurEntry.src)
       /\ run.pc = "u_entry" /\ run'.pc = "done" /\ run.saved = Len(run.entries)
          => /\ run'.result = "ok"
             /\ \A i \in 1..Len(run.entries) :
                   /\ Undeployed(fs', run.entries[i], run.remove_file)
                   /\ ~Persisted(disk', run.entries[i].src)

C19_UndeployResult == [][C19_Step]_vars

\* An undeploy without remove_file has undeployed two files and returned
\* Ok: both targets are copies of their staged files and the state file
\* lists nothing.
C19_Witness ==
    /\ run.op = "undeploy" /\ run.pc = "done" /\ run.result = "ok"
    /\ ~run.remove_file /\ ~run.dry_run
    /\ Len(run.entries) = 2 /\ run.saved = 2
    /\ \A i \in 1..2 : Undeployed(fs, run.entries[i], FALSE)
    /\ disk.present /\ load(disk).deployed = <<>>

\* The entries of a State for the srcs other than src.
OtherEntries(s, src) == SelectSeq(s.deployed, LAMBDA e : e.src # src)

\* C20: when the save after a deploy or undeploy mutation fails, the run
\* ends there with the save's error; the filesystem stays as the mutation
\* left it (the target is the symlink to the staged file after deploy, the
\* copy or absent after undeploy); the state file keeps its content, which
\* differs from the State in memory for this file's src only.
C20_Step ==
    run.pc \in {"d_save", "u_save"} /\ faults' # faults
    => /\ run'.pc = "done" /\ run'.result = "err" /\ run'.i = run.i
       /\ run'.err = <<Frame("Failed to write state file", {}), Frame("os error", {})>>
       /\ fs' = fs
       /\ IF run.op = "deploy" THEN IsLinkTo(fs', CurTarget, CurStaged)
          ELSE Undeployed(fs', CurEntry, run.remove_file)
       /\ disk' = disk
       /\ OtherEntries(load(disk'), CurEntry.src) = OtherEntries(st', CurEntry.src)
       /\ run.op = "undeploy" => Persisted(disk', CurEntry.src)

RerunSelections == {AllFiles, Patterns(<<"a">>), Patterns(<<"b">>)}

\* The command line of the first run, given again.
Rerun(d) == <<d, d>>

InitRerun ==
    /\ cfg \in Configs
    /\ \E deployed \in BOOLEAN, stale \in BOOLEAN :
          IF deployed
          THEN /\ fs = WithStale(DeployedFs(cfg), cfg, stale)
               /\ disk = StateFile(Serialize(DeployedUpTo(cfg, Len(cfg))))
          ELSE /\ \E pre \in [{expand_tilde(target(cfg[i])) : i \in 1..Len(cfg)}
                                 -> {Absent, File(<<"mine">>)}] :
                     fs = WithStale(InitFs(cfg, [s \in Srcs |-> 2], pre), cfg, stale)
               /\ disk = NoFile
    /\ run = IdleRun
    /\ st = DefaultState
    /\ faults = 1
    /\ \E op \in {"deploy", "undeploy"}, files \in RerunSelections, flag \in BOOLEAN :
          hist = [runs |-> MaxRuns, tamper |-> MaxTamper, quiet |-> TRUE,
                  script |-> Rerun(RunDesc(op, files, flag, FALSE)),
                  snap |-> NoSnap, edited |-> {}, prev |-> NoPrev]
    /\ sy = SyncIdle

NextRerun ==
    \/ \E files \in RerunSelections, force \in BOOLEAN, dry \in BOOLEAN :
          DeployStart(files, force, dry)
    \/ DeployEntry
    \/ DeployStale
    \/ DeploySymlink
    \/ DeployRename
    \/ DeploySave
    \/ \E files \in RerunSelections, rm \in BOOLEAN, dry \in BOOLEAN :
          UndeployStart(files, rm, dry)
    \/ UndeployEntry
    \/ UndeployStale
    \/ UndeployCopy
    \/ UndeployRename
    \/ UndeploySave

SpecRerun == InitRerun /\ [][NextRerun]_vars

\* The second run has returned Ok after the first one ended on a failing
\* save.
RerunAfterSaveFailure ==
    /\ hist.script = <<>> /\ hist.prev.op = run.op
    /\ hist.prev.result = "err" /\ hist.prev.at \in {"d_save", "u_save"}
    /\ run.pc = "done" /\ run.result = "ok"

\* C21: when a deploy or undeploy that ended on a failing save is run
\* again and returns Ok, the state file lists each selected src exactly
\* when the target of its entry is a symlink to its staged file.
C21_RerunRestoresState ==
    RerunAfterSaveFailure
    => \A i \in 1..Len(run.entries) :
          Persisted(disk, run.entries[i].src)
          <=> IsLinkTo(fs, expand_tilde(target(run.entries[i])),
                       staged_path_for(run.entries[i].src))


(***************************************************************************)
(* Two calls of State mutators, one after the other, on a State that is    *)
(* empty or was just loaded.  run.entries holds the two calls, run.i the   *)
(* one to make next; the state file is not written, so load(disk) stays    *)
(* the State the calls started from.                                       *)
(***************************************************************************)
StateCall(op, key, val) == [op |-> op, key |-> key, val |-> val]

StateCalls ==
    {StateCall("add_deployed", src, tgt) : src \in Srcs, tgt \in StateTargets}
    \cup {StateCall("remove_deployed", src, NoPath) : src \in Srcs}
    \cup {StateCall("add_ignored", path, reason) : path \in IgnoredPaths, reason \in Reasons}
    \cup {StateCall("remove_ignored", path, "") : path \in IgnoredPaths}

InitTwice ==
    /\ cfg = <<>>
    /\ fs = [p \in {} |-> Absent]
    /\ disk \in {NoFile} \cup {StateFile(t) : t \in StateFiles}
    /\ st = load(disk)
    /\ \E c1 \in StateCalls, c2 \in StateCalls :
          run = NewRun("calls", <<c1, c2>>, FALSE, FALSE, FALSE)
    /\ faults = 0
    /\ hist = [runs |-> 0, tamper |-> 0, quiet |-> TRUE, script |-> <<>>,
               snap |-> NoSnap, edited |-> {},
               prev |-> NoPrev]
    /\ sy = SyncIdle

\* The next call is made.
Called(op, s) ==
    /\ run.op = "calls"
    /\ run.i <= Len(run.entries)
    /\ CurEntry.op = op
    /\ st' = s
    /\ run' = [run EXCEPT !.i = @ + 1]
    /\ UNCHANGED <<cfg, fs, disk, faults, hist, sy>>

\* State::save of the State the calls have built.
SaveState ==
    /\ run.op = "calls" /\ run.pc = "idle"
    /\ run.i > Len(run.entries)
    /\ disk' = save(st, disk, "none").disk
    /\ run' = [run EXCEPT !.pc = "saved"]
    /\ UNCHANGED <<cfg, fs, st, faults, hist, sy>>

\* State::load of the file just saved, into a new State.
ReloadState ==
    /\ run.op = "calls" /\ run.pc = "saved"
    /\ st' = load(disk)
    /\ run' = [run EXCEPT !.pc = "reloaded"]
    /\ UNCHANGED <<cfg, fs, disk, faults, hist, sy>>

NextTwice ==
    \/ Called("add_deployed", add_deployed(st, CurEntry.key, CurEntry.val))
    \/ Called("remove_deployed", remove_deployed(st, CurEntry.key))
    \/ Called("add_ignored", add_ignored(st, CurEntry.key, CurEntry.val))
    \/ Called("remove_ignored", remove_ignored(st, CurEntry.key))
    \/ SaveState
    \/ ReloadState

SpecTwice == InitTwice /\ [][NextTwice]_vars

\* The places of the entries of a key in the two lists of a State.
DeployedAt(s, src) == {i \in 1..Len(s.deployed) : s.deployed[i].src = src}

IgnoredAt(s, path) == {i \in 1..Len(s.ignored) : s.ignored[i].path = path}

FirstOf(S) == CHOOSE i \in S : \A j \in S : i <= j

\* Both calls are made, and they were `op` on the same key.
Twice(op) ==
    /\ run.op = "calls" /\ run.pc = "idle" /\ run.i > Len(run.entries)
    /\ run.entries[1].op = op /\ run.entries[2].op = op
    /\ run.entries[1].key = run.entries[2].key

\* C22: after add_deployed twice with one src the second call has added no
\* entry: a State that did not list the src has exactly one entry for it,
\* and the (first) entry of the src holds the target given last; after
\* add_ignored twice with one path a State that did not list the path has
\* exactly one entry for it, with the first reason, and a State that listed
\* it is unchanged; remove_deployed and remove_ignored of a key the State
\* does not list leave the State as it was.
C22_MutatorsIdempotent ==
    LET s0 == load(disk)
        key == run.entries[1].key
    IN  /\ Twice("add_deployed")
           => /\ Cardinality(DeployedAt(st, key)) =
                    IF DeployedAt(s0, key) = {} THEN 1
                    ELSE Cardinality(DeployedAt(s0, key))
              /\ st.deployed[FirstOf(DeployedAt(st, key))].target = run.entries[2].val
              /\ st.ignored = s0.ignored
              /\ SelectSeq(st.deployed, LAMBDA e : e.src # key)
                    = SelectSeq(s0.deployed, LAMBDA e : e.src # key)
        /\ Twice("add_ignored")
           => IF IgnoredAt(s0, key) = {}
              THEN /\ Cardinality(IgnoredAt(st, key)) = 1
                   /\ st.ignored = Append(s0.ignored,
                                          IgnoredEntry(key, run.entries[1].val))
                   /\ st.deployed = s0.deployed
              ELSE st = s0
        /\ /\ run.op = "calls" /\ run.pc = "idle" /\ run.i = 2
           /\ \/ run.entries[1].op = "remove_deployed" /\ DeployedAt(s0, key) = {}
              \/ run.entries[1].op = "remove_ignored" /\ IgnoredAt(s0, key) = {}
           => st = s0

\* add_deployed was called twice for one src with two targets on a State
\* that listed another src only: the src has one entry, with the second
\* target.
C22_Witness ==
    /\ Twice("add_deployed")
    /\ run.entries[1].val # run.entries[2].val
    /\ Len(load(disk).deployed) = 1
    /\ DeployedAt(load(disk), run.entries[1].key) = {}
    /\ Len(st.deployed) = 2
    /\ st.deployed[2] = DeployedEntry(run.entries[2].key, run.entries[2].val)


\* C23: a State loaded where there is no state file is empty; and a State
\* that is saved and loaded again has the same deployed and ignored
\* entries in the same order, with is_deployed and is_ignored true for
\* exactly the keys of those entries.
C23_Step ==
    /\ run.op = "calls" /\ run.i = 1 /\ ~disk.present
       => /\ st.deployed = <<>> /\ st.ignored = <<>>
          /\ \A k \in Srcs : ~is_deployed(st, k)
          /\ \A k \in IgnoredPaths : ~is_ignored(st, k)
    /\ run.op = "calls" /\ run.pc = "saved" /\ run'.pc = "reloaded"
       => /\ st'.deployed = st.deployed
          /\ st'.ignored = st.ignored
          /\ \A k \in Srcs :
                is_deployed(st', k) <=> \E i \in 1..Len(st.deployed) : st.deployed[i].src = k
          /\ \A k \in IgnoredPaths :
                is_ignored(st', k) <=> \E i \in 1..Len(st.ignored) : st.ignored[i].path = k

C23_SaveLoadRoundTrip == [][C23_Step]_vars

\* A State built from no state file by add_deployed and add_ignored was
\* saved and loaded again: it has the two entries and answers for their
\* keys.
C23_Witness ==
    /\ run.op = "calls" /\ run.pc = "reloaded"
    /\ run.entries[1].op = "add_deployed" /\ run.entries[2].op = "add_ignored"
    /\ disk.present /\ Len(disk.text) = 2
    /\ st.deployed = <<DeployedEntry(run.entries[1].key, run.entries[1].val)>>
    /\ st.ignored = <<IgnoredEntry(run.entries[2].key, run.entries[2].val)>>
    /\ is_deployed(st, run.entries[1].key)
    /\ is_ignored(st, run.entries[2].key)


(***************************************************************************)
(* status (ops/status.rs).  compute reads the tree and the state file and  *)
(* builds one FileStatus per selected entry that passes the filters;       *)
(* run.statuses is StatusResult::statuses.  changed_lines and the fileset  *)
(* summary are derived from the same reads and are left out.               *)
(***************************************************************************)
\* A FileEntry with the `direct` mark that compute reads.
WithDirect(e, d) ==
    [src |-> e.src, target |-> e.target, template |-> e.template, direct |-> d]

\* A faulty files_match: unreadable files match.
files_match_lenient(f, a, b) ==
    read(f, a).content = read(f, b).content

\* files_match: both files can be read and have the same content.
files_match(f, a, b) ==
    /\ read(f, a).ok
    /\ read(f, b).ok
    /\ read(f, a).content = read(f, b).content

\* compute_detail
compute_detail(f, source_path, generated_path, staged_path, deployed) ==
    IF ~exists(f, source_path) THEN "source missing"
    ELSE IF ~exists(f, generated_path) THEN "not yet generated"
    ELSE IF ~exists(f, staged_path)
    THEN IF ~files_match(f, source_path, generated_path)
         THEN "source -> generated diff, not yet staged"
         ELSE "not yet staged"
    ELSE LET sg == files_match(f, source_path, generated_path)
             gs == files_match(f, generated_path, staged_path)
         IN  IF sg /\ gs THEN IF deployed THEN "up to date" ELSE "ready to deploy"
             ELSE IF ~sg /\ ~gs THEN "source -> generated diff, generated -> staged diff"
             ELSE IF ~sg THEN "source -> generated diff"
             ELSE "generated -> staged diff"

\* The details that contain "diff", "missing" or "not yet".
has_diff(detail) ==
    detail \notin {"up to date", "ready to deploy",
                   "deployed (direct)", "ready to deploy (direct)"}

\* A faulty status: the State alone decides.
file_status_state_only(s, f, e) ==
    [src |-> e.src, deployed |-> is_deployed(s, e.src),
     detail |-> compute_detail(f, source_path_for(e.src), generated_path_for(e.src),
                               staged_path_for(e.src), is_deployed(s, e.src))]

\* The body of the loop of compute up to the filters: the FileStatus of
\* one entry.
file_status(s, f, e) ==
    LET target_path == expand_tilde(target(e))
    IN  IF e.direct
        THEN LET deployed == /\ is_deployed(s, e.src)
                             /\ is_janus_symlink(f, target_path, source_path_for(e.src))
             IN  [src |-> e.src, deployed |-> deployed,
                  detail |-> IF ~exists(f, source_path_for(e.src)) THEN "source missing"
                             ELSE IF deployed THEN "deployed (direct)"
                             ELSE "ready to deploy (direct)"]
        ELSE LET deployed == /\ is_deployed(s, e.src)
                             /\ is_janus_symlink(f, target_path, staged_path_for(e.src))
             IN  [src |-> e.src, deployed |-> deployed,
                  detail |-> compute_detail(f, source_path_for(e.src),
                                            generated_path_for(e.src),
                                            staged_path_for(e.src), deployed)]

\* The filters of compute: whether the FileStatus is pushed.
passes(filters, status) ==
    /\ ~(filters.deployed /\ ~status.deployed)
    /\ ~(filters.undeployed /\ status.deployed)
    /\ ~(filters.only_diffs /\ ~has_diff(status.detail))

\* compute up to the loop: the filter check, filter_files, State::load.
StatusStart(files, filters) ==
    /\ CanStart
    /\ MayRun(RunDesc("status", files, filters, FALSE))
    /\ LET entries == filter_files(cfg, files)
           r == [NewRun("status", entries, FALSE, FALSE, FALSE) EXCEPT
                    !.filters = filters]
       IN  IF filters.deployed /\ filters.undeployed
           THEN /\ run' = Finished(r, <<Frame("Cannot specify both --deployed and --undeployed", {})>>)
                /\ UNCHANGED <<st, faults>>
           ELSE IF entries = <<>>
           THEN /\ run' = Finished(r, bail_unmatched(files))
                /\ UNCHANGED <<st, faults>>
           ELSE \E fault \in FaultChoices({"load"}) :
                /\ faults' = Spend(fault)
                /\ IF fault # "none"
                   THEN /\ run' = Finished(r, <<Frame("Failed to read state file", {})>>)
                        /\ UNCHANGED st
                   ELSE /\ run' = [r EXCEPT !.pc = "s_entry"]
                        /\ st' = load(disk)
    /\ hist' = Started
    /\ UNCHANGED <<cfg, fs, disk, sy>>

\* One turn of the loop of compute, and its return after the last entry.
StatusEntry ==
    /\ run.pc = "s_entry"
    /\ IF run.i > Len(run.entries)
       THEN run' = Finished(run, <<>>)
       ELSE LET status == file_status(st, fs, CurEntry)
            IN  run' = [run EXCEPT !.i = @ + 1,
                                   !.statuses = IF passes(run.filters, status)
                                                THEN Append(@, status) ELSE @]
    /\ UNCHANGED <<cfg, fs, disk, st, faults, hist, sy>>

\* The configurations of the model with the second entry direct or not.
StatusConfigs ==
    {[i \in 1..Len(c) |-> WithDirect(c[i], i \in D)] : c \in Configs, D \in {{}, {2}}}

\* What may be at the target of an entry.
TargetKinds == {"absent", "file", "staged", "source"}

TargetEntry(e, kind) ==
    IF kind = "absent" THEN Absent
    ELSE IF kind = "file" THEN File(<<"mine">>)
    ELSE IF kind = "staged" THEN Symlink(staged_path_for(e.src))
    ELSE Symlink(source_path_for(e.src))

StatusSelections == {AllFiles, Patterns(<<"a">>), Patterns(<<"c">>)}

AllFilters == {StatusFilters(d, u, o) : d \in BOOLEAN, u \in BOOLEAN, o \in BOOLEAN}

InitStatus ==
    /\ cfg \in StatusConfigs
    /\ \E lv \in InitLevels, kinds \in [1..Len(cfg) -> TargetKinds] :
          fs = InitFs(cfg, lv,
                      [t \in {expand_tilde(target(cfg[i])) : i \in 1..Len(cfg)} |->
                          LET i == CHOOSE j \in 1..Len(cfg) : expand_tilde(target(cfg[j])) = t
                          IN  TargetEntry(cfg[i], kinds[i])])
    /\ \E n \in 0..Len(cfg) :
          disk = IF n = 0 THEN NoFile ELSE StateFile(Serialize(DeployedUpTo(cfg, n)))
    /\ run = IdleRun
    /\ st = DefaultState
    /\ faults = 1
    /\ hist = [runs |-> 0, tamper |-> 0, quiet |-> TRUE, script |-> <<>>,
               snap |-> NoSnap, edited |-> {},
               prev |-> NoPrev]
    /\ sy = SyncIdle

NextStatus ==
    \/ \E files \in StatusSelections, filters \in AllFilters : StatusStart(files, filters)
    \/ StatusEntry

SpecStatus == InitStatus /\ [][NextStatus]_vars

\* One step of a status run: the tree and the state file stay as they are,
\* and a turn of the loop pushes at most the FileStatus of its entry, whose
\* `deployed` says that the state file lists the src and the target is a
\* symlink to `linked`; with no filter every entry gets its FileStatus,
\* --deployed drops an entry that is not deployed and --undeployed one
\* that is.
StatusStep(linked(_)) ==
    run'.op = "status" /\ run' # run
    => /\ fs' = fs
       /\ disk' = disk
       /\ run.pc = "s_entry" /\ run.i <= Len(run.entries)
          => LET e == CurEntry
                 want == /\ Persisted(disk, e.src)
                         /\ IsLinkTo(fs, expand_tilde(target(e)), linked(e))
                 pushed == Len(run'.statuses) = Len(run.statuses) + 1
             IN  /\ pushed \/ run'.statuses = run.statuses
                 /\ pushed => /\ SubSeq(run'.statuses, 1, Len(run.statuses)) = run.statuses
                              /\ run'.statuses[Len(run'.statuses)].src = e.src
                              /\ run'.statuses[Len(run'.statuses)].deployed <=> want
                 /\ run.filters = NoFilters => pushed
                 /\ run.filters.deployed /\ ~want => ~pushed
                 /\ run.filters.undeployed /\ want => ~pushed

\* Where the target of a deployed entry points.
LinkOf(e) == IF e.direct THEN source_path_for(e.src) ELSE staged_path_for(e.src)

StagedLink(e) == staged_path_for(e.src)

extend(a, b) ==
    [key \in DOMAIN a \cup DOMAIN b |-> IF key \in DOMAIN b THEN b[key] ELSE a[key]]

\* toml::from_str of a vars file into a HashMap.
RECURSIVE toml_table(_)
toml_table(lines) ==
    IF lines = <<>> THEN <<>>
    ELSE extend(toml_table(Front(lines)), Last(lines)[1] :> Last(lines)[3])

\* load_vars: later files override earlier ones, missing files are skipped.
RECURSIVE load_vars(_, _)
load_vars(f, var_files) ==
    IF var_files = <<>> THEN <<>>
    ELSE LET path == P(DotfilesDir, <<Last(var_files)>>)
             table == load_vars(f, Front(var_files))
         IN  IF ~exists(f, path) THEN table
             ELSE extend(table, toml_table(split_lines_inclusive(read(f, path).content)))

SecretEntry(name, engine, reference) ==
    [name |-> name, engine |-> engine, reference |-> reference]

\* parse_secret_files: the entries of the files, in order.
RECURSIVE parse_secret_files(_, _)
parse_secret_files(f, secret_files) ==
    IF secret_files = <<>> THEN <<>>
    ELSE LET path == P(DotfilesDir, <<Last(secret_files)>>)
             entries == parse_secret_files(f, Front(secret_files))
             lines == split_lines_inclusive(read(f, path).content)
         IN  IF ~exists(f, path) THEN entries
             ELSE entries \o [i \in 1..Len(lines) |->
                                 SecretEntry(lines[i][1], lines[i][2], lines[i][3])]

\* Config::matching_filesets: the filesets with a pattern that matches src,
\* in the iteration order of the HashMap.
matching_filesets(c, order, src) ==
    SelectSeq(order, LAMBDA name :
        \E i \in 1..Len(c.filesets[name].patterns) :
            glob_matches(c.filesets[name].patterns[i], src))

\* The vars of generate_file: global, then each matching fileset, then the
\* entry's own.
RECURSIVE fileset_vars(_, _, _, _)
fileset_vars(f, c, names, table) ==
    IF names = <<>> THEN table
    ELSE fileset_vars(f, c, Tail(names),
                      IF c.filesets[Head(names)].vars = <<>> THEN table
                      ELSE extend(table, load_vars(f, c.filesets[Head(names)].vars)))

file_vars(f, c, order, e, global_vars) ==
    LET table == fileset_vars(f, c, matching_filesets(c, order, e.src), global_vars)
    IN  IF e.vars = <<>> THEN table ELSE extend(table, load_vars(f, e.vars))

\* The secret entries of generate_file: global, fileset, per-file.
RECURSIVE fileset_secrets(_, _, _, _)
fileset_secrets(f, c, names, entries) ==
    IF names = <<>> THEN entries
    ELSE fileset_secrets(f, c, Tail(names),
                         entries \o parse_secret_files(f, c.filesets[Head(names)].secrets))

file_secrets(f, c, order, e, global_secret_entries) ==
    fileset_secrets(f, c, matching_filesets(c, order, e.src), global_secret_entries)
        \o parse_secret_files(f, e.secrets)

\* The pieces of a string of a secrets file, cut at its ':' characters.
Pieces(str) ==
    IF str = "op://p" THEN <<"op", ":", "//p">>
    ELSE IF str = "op://t" THEN <<"op", ":", "//t">>
    ELSE IF str = "1password:op" THEN <<"1password", ":", "op">>
    ELSE <<str>>

\* format!("{}:{}", entry.engine, entry.reference): the two strings with a
\* ':' between them, one string.
cache_key(engine, reference) == Pieces(engine) \o <<":">> \o Pieces(reference)

\* A faulty cache: every lookup misses.
cache_get_miss(cache, key) == [hit |-> FALSE, value |-> ""]

\* self.cache.get(&cache_key)
cache_get(cache, key) ==
    IF key \in DOMAIN cache THEN [hit |-> TRUE, value |-> cache[key]]
    ELSE [hit |-> FALSE, value |-> ""]

\* What `op read` prints for a reference.
SecretValue(reference) == IF reference = "op://p" THEN "hunter2" ELSE "swordfish"

\* RealSecretEngine::resolve: only "1password" is known, and `op read` may
\* fail.
engine_resolve(engine, reference, fault) ==
    IF engine # "1password" \/ fault # "none" THEN [ok |-> FALSE, value |-> ""]
    ELSE [ok |-> TRUE, value |-> SecretValue(reference)]

\* The places of a template text where a variable is named.
IsName(text, i) == i >= 3 /\ text[i - 1] = "{" /\ text[i - 2] = "{"

\* Tera::one_off: every named variable is replaced by its value; a name
\* the context does not hold is an error.
render_vars(text, table) ==
    IF \A i \in 1..Len(text) : IsName(text, i) => text[i] \in DOMAIN table
    THEN [ok |-> TRUE,
          content |-> SelectSeq([i \in 1..Len(text) |->
                                    IF IsName(text, i) THEN table[text[i]] ELSE text[i]],
                                LAMBDA ch : ch # "{")]
    ELSE [ok |-> FALSE, content |-> <<>>]

\* generate::run up to the loop: filter_files, the global vars and secret
\* entries, a new SecretResolver.
TemplateStart(files, dry) ==
    /\ CanStart
    /\ MayRun(RunDesc("generate", files, FALSE, dry))
    /\ LET entries == filter_files(cfg.files, files)
           r == NewRun("generate", entries, FALSE, FALSE, dry)
       IN  IF entries = <<>>
           THEN run' = Finished(r, bail_unmatched(files))
           ELSE \E order \in Orders(DOMAIN cfg.filesets) :
                   run' = [r EXCEPT !.pc = "t_entry", !.order = order,
                                    !.global_vars = load_vars(fs, cfg.vars),
                                    !.global_secret_entries =
                                        parse_secret_files(fs, cfg.secrets)]
    /\ hist' = Started
    /\ UNCHANGED <<cfg, fs, disk, st, faults, sy>>

\* generate_file up to resolve_secrets (a template), or the whole of it
\* (a file that is copied, a missing Source, a dry run); and the end of
\* generate::run.
TemplateEntry ==
    /\ run.pc = "t_entry"
    /\ IF run.i > Len(run.entries)
       THEN /\ run' = Finished(run, Collected("Failed to generate", run.errors))
            /\ fs' = fs
       ELSE LET src_path == source_path_for(CurEntry.src)
                dest_path == generated_path_for(CurEntry.src)
            IN  IF ~exists(fs, src_path)
                THEN /\ run' = [run EXCEPT !.i = @ + 1, !.errors = @ + 1]
                     /\ fs' = fs
                ELSE IF run.dry_run
                THEN /\ run' = [run EXCEPT !.i = @ + 1, !.succeeded = @ + 1]
                     /\ fs' = fs
                ELSE IF CurEntry.template
                THEN /\ run' = [run EXCEPT
                                  !.pc = "t_resolve", !.k = 1, !.secrets = <<>>,
                                  !.vars = file_vars(fs, cfg, run.order, CurEntry,
                                                     run.global_vars),
                                  !.secret_entries =
                                      file_secrets(fs, cfg, run.order, CurEntry,
                                                   run.global_secret_entries)]
                     /\ fs' = fs
                ELSE LET r == preserve_mode(copy(fs, src_path, dest_path, "none"),
                                            src_path, dest_path)
                     IN  /\ fs' = r.fs
                         /\ run' = [run EXCEPT !.i = @ + 1,
                                               !.succeeded = IF r.ok THEN @ + 1 ELSE @,
                                               !.errors = IF r.ok THEN @ ELSE @ + 1]
    /\ UNCHANGED <<cfg, disk, st, faults, hist, sy>>

\* One turn of the loop of resolve_secrets (SecretResolver::resolve), and
\* after the last one the rest of generate_file: check_conflicts, the
\* rendering and the write.
TemplateResolve ==
    /\ run.pc = "t_resolve"
    /\ IF run.k > Len(run.secret_entries)
       THEN LET src_path == source_path_for(CurEntry.src)
                dest_path == generated_path_for(CurEntry.src)
                conflict == DOMAIN run.vars \cap DOMAIN run.secrets # {}
                rendered == render_vars(read(fs, src_path).content,
                                        extend(run.vars, run.secrets))
                r == IF conflict \/ ~rendered.ok
                     THEN Err(fs, <<Frame("Failed to render template", {})>>)
                     ELSE preserve_mode(write(fs, dest_path, rendered.content, "none"),
                                        src_path, dest_path)
            IN  /\ fs' = r.fs
                /\ run' = [run EXCEPT !.pc = "t_entry", !.i = @ + 1,
                                      !.succeeded = IF r.ok THEN @ + 1 ELSE @,
                                      !.errors = IF r.ok THEN @ ELSE @ + 1]
                /\ faults' = faults
       ELSE LET entry == run.secret_entries[run.k]
                key == cache_key(entry.engine, entry.reference)
                cached == cache_get(run.cache, key)
            IN  /\ fs' = fs
                /\ IF cached.hit
                   THEN /\ run' = [run EXCEPT
                                     !.k = @ + 1,
                                     !.secrets = extend(@, entry.name :> cached.value)]
                        /\ faults' = faults
                   ELSE \E fault \in FaultChoices({"resolve"}) :
                        LET value == engine_resolve(entry.engine, entry.reference, fault)
                            calls == Append(run.calls,
                                            [engine |-> entry.engine,
                                             reference |-> entry.reference,
                                             ok |-> value.ok, value |-> value.value])
                        IN  /\ faults' = Spend(fault)
                            /\ run' = IF value.ok
                                      THEN [run EXCEPT
                                              !.k = @ + 1, !.calls = calls,
                                              !.cache = extend(@, key :> value.value),
                                              !.secrets = extend(@, entry.name :> value.value)]
                                      ELSE [run EXCEPT
                                              !.pc = "t_entry", !.i = @ + 1,
                                              !.errors = @ + 1, !.calls = calls]
    /\ UNCHANGED <<cfg, disk, st, hist, sy>>

\* A FileEntry with its vars and secrets files.
TemplateEntryOf(src, template, var_files, secret_files) ==
    [src |-> src, target |-> NoPath, template |-> template,
     vars |-> var_files, secrets |-> secret_files]

FilesetEntry(patterns, var_files, secret_files) ==
    [patterns |-> patterns, vars |-> var_files, secrets |-> secret_files]

\* The configurations: two filesets that both name a vars file defining
\* `val`; fileset "one" matches a, fileset "two" every file or b only; a
\* has vars of its own or not; b is a template or not.
TemplateConfigs ==
    {[files |-> << TemplateEntryOf("a", TRUE, own, <<>>),
                   TemplateEntryOf("b", tb, <<>>, <<>>) >>,
      filesets |-> [name \in {"one", "two"} |->
                       IF name = "one" THEN FilesetEntry(<<"a">>, <<"one-vars">>, <<>>)
                       ELSE FilesetEntry(two, <<"two-vars">>, <<"two-secrets">>)],
      vars |-> <<"vars">>,
      secrets |-> <<"secrets">>] :
        own \in {<<>>, <<"a-vars">>}, tb \in BOOLEAN, two \in {<<"*">>, <<"b">>}}

VarValues == {"x", "y"}

Engines == {"1password", "keyring"}

\* The engine and the reference of the secret `token`: the pair of `pass`
\* again, another reference, and a pair of another engine whose two strings
\* joined by ':' read like the pair of `pass`.
TokenSecrets ==
    { <<"1password", "op://p">>, <<"1password", "op://t">>, <<"1password:op", "//p">> }

\* The tree: the Source of a names `val`, that of b names `pass`; the
\* global vars file is missing or defines `val`.
TemplateFs(global, one, two, engine, token) ==
    (source_path_for("a") :> File(<<"{", "{", "val", NL>>))
    @@ (source_path_for("b") :> File(<<"{", "{", "pass", NL>>))
    @@ (generated_path_for("a") :> Absent)
    @@ (generated_path_for("b") :> Absent)
    @@ (P(DotfilesDir, <<"vars">>) :>
           IF global THEN File(<<"val", "=", "x", NL>>) ELSE Absent)
    @@ (P(DotfilesDir, <<"one-vars">>) :> File(<<"val", "=", one, NL>>))
    @@ (P(DotfilesDir, <<"two-vars">>) :> File(<<"val", "=", two, NL>>))
    @@ (P(DotfilesDir, <<"a-vars">>) :> File(<<"val", "=", "z", NL>>))
    @@ (P(DotfilesDir, <<"secrets">>) :> File(<<"pass", engine, "op://p", NL>>))
    @@ (P(DotfilesDir, <<"two-secrets">>) :>
           File(<<"token", token[1], token[2], NL>>))

InitTemplate ==
    /\ cfg \in TemplateConfigs
    /\ \E global \in BOOLEAN, one \in VarValues, two \in VarValues,
          engine \in Engines, token \in TokenSecrets :
          fs = TemplateFs(global, one, two, engine, token)
    /\ disk = NoFile
    /\ run = IdleRun
    /\ st = DefaultState
    /\ faults = 1
    /\ \E files \in Selections, dry \in BOOLEAN :
          hist = [runs |-> MaxRuns, tamper |-> MaxTamper, quiet |-> TRUE,
                  script |-> Rerun(RunDesc("generate", files, FALSE, dry)),
                  snap |-> NoSnap, edited |-> {}, prev |-> NoPrev]
    /\ sy = SyncIdle

NextTemplate ==
    \/ \E files \in Selections, dry \in BOOLEAN : TemplateStart(files, dry)
    \/ TemplateEntry
    \/ TemplateResolve

SpecTemplate == InitTemplate /\ [][NextTemplate]_vars

\* The run is the second of two generate runs with the same command line.
SecondGenerate == run.op = "generate" /\ hist.script = <<>> /\ hist.prev.op = "generate"

\* C25: generate is reproducible: with the Source, the configuration and
\* the vars and secrets files as they were, a second generate run writes
\* to .generated/<src> exactly what the first run wrote there.
C25_Step ==
    SecondGenerate /\ run.pc = "t_resolve" /\ run'.succeeded = run.succeeded + 1
    => LET dest_path == generated_path_for(CurEntry.src)
       IN  fs[dest_path].kind = "file" => fs'[dest_path] = fs[dest_path]

C25_GenerateReproducible == [][C25_Step]_vars

\* The same, for the files that match at most one fileset or have vars of
\* their own.
C25_OneFilesetStep ==
    /\ SecondGenerate /\ run.pc = "t_resolve" /\ run'.succeeded = run.succeeded + 1
    /\ \/ Len(matching_filesets(cfg, run.order, CurEntry.src)) <= 1
       \/ CurEntry.vars # <<>>
    => LET dest_path == generated_path_for(CurEntry.src)
       IN  fs[dest_path].kind = "file" => fs'[dest_path] = fs[dest_path]

C25_OneFileset == [][C25_OneFilesetStep]_vars

\* The calls of the engine that resolved the pair of a secret entry.
ResolvedCalls(calls, entry) ==
    {i \in 1..Len(calls) : /\ calls[i].ok
                           /\ calls[i].engine = entry.engine
                           /\ calls[i].reference = entry.reference}

\* C26: within one generate run, once the engine has resolved an (engine,
\* reference) pair it is not called for that pair again: an entry with the
\* same pair gets the value of that call without a call, and no call
\* follows a successful call for the same pair.
C26_Step ==
    run.op = "generate" /\ run.pc = "t_resolve" /\ run.k <= Len(run.secret_entries)
    => LET entry == run.secret_entries[run.k]
           earlier == ResolvedCalls(run.calls, entry)
       IN  /\ earlier # {}
              => /\ run'.calls = run.calls
                 /\ run'.k = run.k + 1
                 /\ run'.secrets[entry.name] = run.calls[CHOOSE i \in earlier : TRUE].value
           /\ \A i \in 1..Len(run'.calls), j \in 1..Len(run'.calls) :
                 i < j => i \notin ResolvedCalls(run'.calls, run'.calls[j])

C26_SecretResolvedOnce == [][C26_Step]_vars

\* A run has generated two templates that use three secret entries with
\* one pair between them: the engine was called once.
C26_Witness ==
    /\ run.op = "generate" /\ run.pc = "done" /\ run.result = "ok"
    /\ run.succeeded = 2
    /\ \A i \in 1..Len(run.entries) : run.entries[i].template
    /\ Len(run.secret_entries) = 2
    /\ Len(run.calls) = 1 /\ run.calls[1].ok
    /\ DOMAIN run.cache = {cache_key("1password", "op://p")}


(***************************************************************************)
(* acquire_lock (lock.rs).  Time is counted in retry intervals (200 ms):   *)
(* run.now is the time since `start`, run.elapsed what start.elapsed()     *)
(* gave after the last failed attempt, run.tries the attempts made, each   *)
(* with what try_lock returned.  Whether the lock is free at an attempt is *)
(* up to the other processes: any answer is possible at any attempt.       *)
(***************************************************************************)
\* A faulty check: the timeout must be exceeded, not reached.
timed_out_late(elapsed, timeout) == elapsed > timeout

\* `elapsed >= timeout`
timed_out(elapsed, timeout) == elapsed >= timeout

\* The call: `start = Instant::now()`.
AcquireStart(timeout) ==
    /\ CanStart
    /\ MayRun(RunDesc("acquire_lock", timeout, FALSE, FALSE))
    /\ run' = [NewRun("acquire_lock", <<>>, FALSE, FALSE, FALSE) EXCEPT
                  !.pc = "l_try", !.timeout = timeout]
    /\ hist' = Started
    /\ UNCHANGED <<cfg, fs, disk, st, faults, sy>>

\* locker.try_lock()?: Ok(true) returns Ok, an error is returned as it is,
\* Ok(false) goes on to read the clock.  The call may take some time.
LockTry ==
    /\ run.pc = "l_try"
    /\ \E answer \in {"true", "false"} \cup (FaultChoices({"lock"}) \ {"none"}),
          took \in 0..1 :
          LET r == [run EXCEPT !.tries = Append(@, [answer |-> answer,
                                                   elapsed |-> run.now + took]),
                               !.now = @ + took]
          IN  /\ run' = IF answer = "true" THEN Finished(r, <<>>)
                        ELSE IF answer = "lock"
                        THEN Finished(r, <<Frame("Failed to acquire lock", {})>>)
                        ELSE [r EXCEPT !.pc = "l_owner", !.elapsed = run.now + took]
              /\ faults' = IF answer = "lock" THEN faults - 1 ELSE faults
    /\ UNCHANGED <<cfg, fs, disk, st, hist, sy>>

\* read_lock_owner and the timeout check: bail, or go to sleep.
LockOwner ==
    /\ run.pc = "l_owner"
    /\ \E owner \in {"none", "pid"} :
          run' = IF timed_out(run.elapsed, run.timeout)
                 THEN Finished([run EXCEPT !.owner = owner],
                               <<Frame("Could not acquire lock", {})>>)
                 ELSE [run EXCEPT !.owner = owner, !.pc = "l_sleep"]
    /\ UNCHANGED <<cfg, fs, disk, st, faults, hist, sy>>

\* std::thread::sleep(200 ms): at least one interval passes.
LockSleep ==
    /\ run.pc = "l_sleep"
    /\ \E slept \in 1..2 : run' = [run EXCEPT !.now = @ + slept, !.pc = "l_try"]
    /\ UNCHANGED <<cfg, fs, disk, st, faults, hist, sy>>

InitLock ==
    /\ cfg = <<>>
    /\ fs = [p \in {} |-> Absent]
    /\ disk = NoFile
    /\ run = IdleRun
    /\ st = DefaultState
    /\ faults = 1
    /\ hist = [runs |-> 0, tamper |-> 0, quiet |-> TRUE, script |-> <<>>,
               snap |-> NoSnap, edited |-> {},
               prev |-> NoPrev]
    /\ sy = SyncIdle

NextLock ==
    \/ \E timeout \in 0..MaxTimeout : AcquireStart(timeout)
    \/ LockTry
    \/ LockOwner
    \/ LockSleep

\* The caller and the loop keep running: a thread that is not blocked
\* takes its next step.
SpecLock == InitLock /\ [][NextLock]_vars /\ WF_vars(NextLock)

\* The attempts before the last one all found the lock held, before the
\* timeout was reached.
EarlierTriesFailed ==
    \A i \in 1..(Len(run.tries) - 1) :
       /\ run.tries[i].answer = "false"
       /\ run.tries[i].elapsed < run.timeout

\* What acquire_lock has returned, and after which attempts.
LockReturns ==
    run.op = "acquire_lock"
    => /\ EarlierTriesFailed
       /\ run.pc = "done"
          => /\ Len(run.tries) >= 1
             /\ run.result = "ok" <=> Last(run.tries).answer = "true"
             /\ Last(run.tries).answer = "false"
                => Last(run.tries).elapsed >= run.timeout
       /\ run.pc \in {"l_try", "l_sleep"} /\ run.tries # <<>>
          => /\ Last(run.tries).answer = "false"
             /\ Last(run.tries).elapsed < run.timeout

\* C28: acquire_lock always returns; it has then made at least one attempt
\* (also with timeout zero); it returns Ok exactly when its last attempt
\* got the lock, which is the first that did; and when it returns after an
\* attempt that found the lock held, that is the first such attempt at
\* which the elapsed time had reached the timeout.
C28_AcquireLock ==
    /\ []LockReturns
    /\ (run.pc = "l_try") ~> (run.pc = "done")

\* acquire_lock returned the timeout error after three attempts, the last
\* one at or after the timeout.
C28_Witness ==
    /\ run.op = "acquire_lock" /\ run.pc = "done" /\ run.result = "err"
    /\ run.timeout = 2
    /\ Len(run.tries) = 3
    /\ Last(run.tries).answer = "false"
    /\ Last(run.tries).elapsed >= run.timeout


(***************************************************************************)
(* main (main.rs) in two janus processes on one dotfiles tree.             *)
(* run.procs[p] is where process p is in main and the command it was       *)
(* given; hist.edited collects the paths of the tree that were written,    *)
(* each with its writer.  main opens no lock file and calls neither        *)
(* acquire_lock nor a Locker, so no step of it waits for another process.  *)
(* The runs of the commands are those of the sections above; here a run is *)
(* kept as the sequence of its writes to the tree.                         *)
(***************************************************************************)
Procs == {1, 2}

\* The commands main dispatches after Config::load.
PipelineCommands ==
    {"generate", "stage", "deploy", "apply", "undeploy", "clean", "sync",
     "import", "unimport"}

Commands == PipelineCommands \cup {"diff", "status"}

\* Where a command writes for an entry: generate under .generated/, stage under
\* .staged/, deploy and undeploy at the target, sync, import and unimport
\* in the Source tree; apply is generate, stage and deploy; clean removes
\* under .generated/ and .staged/; diff and status write nothing.
Writes(command, e) ==
    IF command = "generate" THEN <<generated_path_for(e.src)>>
    ELSE IF command = "stage" THEN <<staged_path_for(e.src)>>
    ELSE IF command \in {"deploy", "undeploy"} THEN <<expand_tilde(target(e))>>
    ELSE IF command = "apply"
    THEN <<generated_path_for(e.src), staged_path_for(e.src), expand_tilde(target(e))>>
    ELSE IF command = "clean" THEN <<generated_path_for(e.src), staged_path_for(e.src)>>
    ELSE IF command \in {"sync", "import", "unimport"} THEN <<source_path_for(e.src)>>
    ELSE <<>>

NoProc == [pc |-> "start", command |-> "none", i |-> 0]

\* Cli::parse and Config::load: the command is known, the config loaded.
MainLoad(p, command) ==
    /\ run.op = "main"
    /\ run.procs[p].pc = "start"
    /\ run' = [run EXCEPT !.procs[p] = [pc |-> "loaded", command |-> command, i |-> 0]]
    /\ UNCHANGED <<cfg, fs, disk, st, faults, hist, sy>>

\* The arm of `match command`: resolve_file_selection and the call of
\* ops::<command>::run.
MainDispatch(p) ==
    /\ run.op = "main"
    /\ run.procs[p].pc = "loaded"
    /\ run' = [run EXCEPT !.procs[p].pc = "running", !.procs[p].i = 1]
    /\ UNCHANGED <<cfg, fs, disk, st, faults, hist, sy>>

\* The run of the command writes to the tree, or returns and main with it.
MainRun(p) ==
    /\ run.op = "main"
    /\ run.procs[p].pc = "running"
    /\ LET writes == Writes(run.procs[p].command, cfg[1])
           i == run.procs[p].i
       IN  IF i > Len(writes)
           THEN /\ run' = [run EXCEPT !.procs[p].pc = "done"]
                /\ UNCHANGED <<fs, hist>>
           ELSE /\ fs' = [fs EXCEPT ![writes[i]] = File(<<run.procs[p].command>>)]
                /\ hist' = [hist EXCEPT !.edited = @ \cup {<<p, writes[i]>>}]
                /\ run' = [run EXCEPT !.procs[p].i = @ + 1]
    /\ UNCHANGED <<cfg, disk, st, faults, sy>>

InitMain ==
    /\ cfg = << FileEntry("a", NoPath, TRUE) >>
    /\ \E lv \in InitLevels : fs = InitFs(cfg, lv, <<>>)
    /\ disk = NoFile
    /\ run = [IdleRun EXCEPT !.op = "main", !.procs = [p \in Procs |-> NoProc]]
    /\ st = DefaultState
    /\ faults = 0
    /\ hist = [runs |-> 0, tamper |-> 0, quiet |-> TRUE, script |-> <<>>,
               snap |-> NoSnap, edited |-> {},
               prev |-> NoPrev]
    /\ sy = SyncIdle

NextMain ==
    \/ \E p \in Procs, command \in Commands : MainLoad(p, command)
    \/ \E p \in Procs : MainDispatch(p)
    \/ \E p \in Procs : MainRun(p)

SpecMain == InitMain /\ [][NextMain]_vars

\* Process p is inside the run of a pipeline command.
InPipeline(p) ==
    /\ run.procs[p].pc = "running"
    /\ run.procs[p].command \in PipelineCommands

\* C27: while one janus process is in the run of a pipeline command no
\* other process is: two processes never mutate the tree at the same time.
C27_OneMutator ==
    run.op = "main" => \A p \in Procs, q \in Procs : InPipeline(p) /\ InPipeline(q) => p = q

(***************************************************************************)
(* unimport (ops/unimport.rs).  The config file is the variable cfg: the   *)
(* run works on the entries it was started with and rewrites the file.     *)
(***************************************************************************)
\* undeploy_single as one call: a target that is not the janus symlink is
\* skipped; the symlink is removed (remove_file) or replaced by a copy of
\* the staged file; the entry leaves the in-memory State.  fault is "none"
\* or "fail" (the removal, or the rename over the symlink, fails).
undeploy_single(f, s, src, tp, rm, fault) ==
    LET sp == staged_path_for(src)
        tmp == temp_path_for(tp)
        done(r) == [ok |-> r.ok, fs |-> r.fs, err |-> r.err,
                    st |-> IF r.ok THEN remove_deployed(s, src) ELSE s]
    IN  IF ~is_janus_symlink(f, tp, sp) THEN [ok |-> TRUE, fs |-> f, err |-> <<>>, st |-> s]
        ELSE IF rm
        THEN done(with_context(remove_file(f, tp, IF fault = "none" THEN "none" ELSE "remove"),
                               Frame("Failed to remove symlink", {tp})))
        ELSE LET stale == IF exists(f, tmp) \/ is_symlink(f, tmp)
                          THEN remove_file(f, tmp, "none") ELSE Ok(f)
                 copied == with_context(copy(stale.fs, sp, tmp, "none"),
                                        Frame("Failed to copy staged file to temp", {tmp}))
             IN  IF ~copied.ok THEN done(copied)
                 ELSE done(rename_over(copied.fs, tmp, tp,
                                       "Failed to atomically replace symlink",
                                       IF fault = "none" THEN "none" ELSE "rename"))

\* remove_config_entry: the first [[files]] table with this src leaves the
\* config file; without one the file is written back as it was.
remove_config_entry(c, src) ==
    LET found == {i \in 1..Len(c) : c[i].src = src}
    IN  IF found = {} THEN c
        ELSE LET idx == CHOOSE i \in found : \A j \in found : i <= j
             IN  SubSeq(c, 1, idx - 1) \o SubSeq(c, idx + 1, Len(c))

\* `if fs.exists(p) { fs.remove_file(p)? }` of steps 3 to 5.
remove_existing(f, p, msg, fault) ==
    IF exists(f, p) THEN with_context(remove_file(f, p, fault), Frame(msg, {p})) ELSE Ok(f)

UnimportFaults == {"undeploy", "config", "source", "generated", "staged", "save"}

\* The body of the loop of unimport::run after the dry-run check: undeploy
\* when State lists the src, rewrite the config file, remove the Source,
\* the generated and the staged file, save State.  The first failing call
\* returns; what the earlier calls did stays.
unimport_entry(f, c, s, d, e, rm, fault) ==
    LET src == e.src
        tp == expand_tilde(target(e))
        on(kind, as) == IF fault = kind THEN as ELSE "none"
        u == IF is_deployed(s, src)
             THEN undeploy_single(f, s, src, tp, rm, on("undeploy", "fail"))
             ELSE [ok |-> TRUE, fs |-> f, err |-> <<>>, st |-> s]
        c1 == remove_config_entry(c, src)
        r1 == remove_existing(u.fs, source_path_for(src),
                              "Failed to remove source file", on("source", "remove"))
        r2 == remove_existing(r1.fs, generated_path_for(src),
                              "Failed to remove generated file", on("generated", "remove"))
        r3 == remove_existing(r2.fs, staged_path_for(src),
                              "Failed to remove staged file", on("staged", "remove"))
        w == save(u.st, d, on("save", "write"))
        out(ok, f2, c2, d2, err) ==
            [ok |-> ok, fs |-> f2, cfg |-> c2, st |-> u.st, disk |-> d2, err |-> err]
    IN  IF ~u.ok THEN out(FALSE, u.fs, c, d, u.err)
        ELSE IF fault = "config"
        THEN out(FALSE, u.fs, c, d, <<Frame("Failed to write config", {}),
                                      Frame("os error", {})>>)
        ELSE IF ~r1.ok THEN out(FALSE, r1.fs, c1, d, r1.err)
        ELSE IF ~r2.ok THEN out(FALSE, r2.fs, c1, d, r2.err)
        ELSE IF ~r3.ok THEN out(FALSE, r3.fs, c1, d, r3.err)
        ELSE out(w.ok, r3.fs, c1, w.disk,
                 IF w.ok THEN <<>>
                 ELSE <<Frame("Failed to save state after unimporting", {})>> \o w.err)

\* Whether the fault has a call to fail in.
fault_applies(f, s, e, fault) ==
    CASE fault = "undeploy" ->
             /\ is_deployed(s, e.src)
             /\ is_janus_symlink(f, expand_tilde(target(e)), staged_path_for(e.src))
      [] fault = "source" -> exists(f, source_path_for(e.src))
      [] fault = "generated" -> exists(f, generated_path_for(e.src))
      [] fault = "staged" -> exists(f, staged_path_for(e.src))
      [] OTHER -> TRUE

\* unimport::run up to the loop: the file list must not be empty; State is
\* loaded; the entries are filtered.
UnimportStart(files, rm, dry) ==
    /\ CanStart
    /\ MayRun(RunDesc("unimport", files, rm, dry))
    /\ LET entries == filter_files(cfg, files)
           r == NewRun("unimport", entries, FALSE, rm, dry)
       IN  IF files.patterns = <<>>
           THEN /\ run' = Finished(r, <<Frame("Specify files to unimport", {})>>)
                /\ st' = st
           ELSE /\ run' = IF entries = <<>> THEN Finished(r, bail_unmatched(files))
                          ELSE [r EXCEPT !.pc = "n_entry"]
                /\ st' = load(disk)
    /\ hist' = Started
    /\ UNCHANGED <<cfg, fs, disk, faults, sy>>

\* One turn of the loop of unimport::run, and its return.
UnimportEntry ==
    /\ run.pc = "n_entry"
    /\ IF run.i > Len(run.entries)
       THEN /\ run' = Finished(run, <<>>)
            /\ UNCHANGED <<cfg, fs, disk, st, faults>>
       ELSE IF run.dry_run
       THEN /\ run' = [run EXCEPT !.i = @ + 1]
            /\ UNCHANGED <<cfg, fs, disk, st, faults>>
       ELSE \E fault \in FaultChoices(UnimportFaults) :
            LET r == unimport_entry(fs, cfg, st, disk, CurEntry, run.remove_file, fault)
            IN  /\ fault # "none" => fault_applies(fs, st, CurEntry, fault)
                /\ fs' = r.fs
                /\ cfg' = r.cfg
                /\ st' = r.st
                /\ disk' = r.disk
                /\ faults' = Spend(fault)
                /\ run' = IF r.ok THEN [run EXCEPT !.i = @ + 1, !.saved = @ + 1]
                          ELSE Finished([run EXCEPT !.fault = fault], r.err)
    /\ UNCHANGED <<hist, sy>>

(***************************************************************************)
(* Dry runs.  One command line is run on a tree that a run without         *)
(* --dry-run would change: Sources to generate, generated files to stage,  *)
(* staged files to deploy or deployed ones to undeploy, an edited staged   *)
(* file to sync, generated files and orphans to clean, entries to          *)
(* unimport.  Every command is given with --dry-run; unimport, which no    *)
(* other specification runs, is given both ways.                           *)
(***************************************************************************)
\* The tree: the files of src a hold `text` (Source), its rendering
\* (generated, when lv >= 1) and `edit` (staged, when lv >= 2); the targets
\* are the symlinks of an earlier deploy or absent; a src the config does
\* not list may have left a generated and a staged file.
DryFs(c, text, lv, edit, deployed, orphan) ==
    LET a == EntryOf(c, "a")
        pre == [t \in {expand_tilde(target(c[i])) : i \in 1..Len(c)} |->
                   IF deployed
                   THEN Symlink(staged_path_for(
                            c[CHOOSE i \in 1..Len(c) : t = expand_tilde(target(c[i]))].src))
                   ELSE Absent]
        base == InitFs(c, [s \in Srcs |-> lv], pre)
        listed == {c[i].src : i \in 1..Len(c)}
    IN  [p \in AllPaths |->
            IF p = source_path_for("a") THEN File(text)
            ELSE IF p = generated_path_for("a") /\ lv >= 1
              THEN File(IF a.template THEN Render(text) ELSE text)
            ELSE IF p = staged_path_for("a") /\ lv >= 2 THEN File(edit)
            ELSE IF /\ orphan
                    /\ \E s \in Srcs \ listed : p \in {generated_path_for(s), staged_path_for(s)}
              THEN File(<<"b", NL>>)
            ELSE base[p]]

UnimportSelections == {Patterns(<<>>), Patterns(<<"a">>), Patterns(<<"*">>)}

\* The command lines.
DryCommands ==
    {RunDesc(op, files, FALSE, TRUE) :
        op \in {"generate", "stage", "sync"}, files \in Selections}
    \cup {RunDesc(op, files, flag, TRUE) :
            op \in {"deploy", "undeploy"}, files \in Selections, flag \in BOOLEAN}
    \cup {RunDesc("clean", CleanFlags(generated, orphans), FALSE, TRUE) :
            generated \in BOOLEAN, orphans \in BOOLEAN}
    \cup {RunDesc("unimport", files, rm, dry) :
            files \in UnimportSelections, rm \in BOOLEAN, dry \in BOOLEAN}

InitDry ==
    /\ cfg \in Configs
    /\ \E text \in RunSources, lv \in 0..2, edit \in StagedEdits,
          deployed \in BOOLEAN, orphan \in BOOLEAN :
          /\ lv < 2 => edit = CHOOSE x \in StagedEdits : TRUE
          /\ deployed => lv = 2
          /\ orphan => lv = 2
          /\ fs = DryFs(cfg, text, lv, edit, deployed, orphan)
          /\ disk = IF deployed THEN StateFile(Serialize(DeployedUpTo(cfg, Len(cfg))))
                    ELSE NoFile
    /\ run = IdleRun
    /\ st = DefaultState
    /\ faults = 1
    /\ \E d \in DryCommands :
          hist = [runs |-> MaxRuns, tamper |-> MaxTamper, quiet |-> TRUE,
                  script |-> <<d>>, snap |-> NoSnap, edited |-> {}, prev |-> NoPrev]
    /\ sy = SyncIdle

NextDry ==
    \/ \E files \in Selections, dry \in BOOLEAN : GenerateStart(files, dry)
    \/ GenerateEntry
    \/ \E files \in Selections, dry \in BOOLEAN : StageStart(files, dry)
    \/ StageEntry
    \/ \E files \in Selections, force \in BOOLEAN, dry \in BOOLEAN :
          DeployStart(files, force, dry)
    \/ DeployEntry
    \/ \E files \in Selections, rm \in BOOLEAN, dry \in BOOLEAN :
          UndeployStart(files, rm, dry)
    \/ UndeployEntry
    \/ \E generated \in BOOLEAN, orphans \in BOOLEAN, dry \in BOOLEAN :
          CleanStart(generated, orphans, dry)
    \/ CleanGenerated
    \/ CleanOrphansGenerated
    \/ CleanOrphansStaged
    \/ \E files \in Selections, dry \in BOOLEAN : SyncStart(files, dry)
    \/ SyncEntry
    \/ SyncRead
    \/ SyncOp
    \/ SyncWrite
    \/ SyncReturn
    \/ \E files \in UnimportSelections, rm \in BOOLEAN, dry \in BOOLEAN :
          UnimportStart(files, rm, dry)
    \/ UnimportEntry

SpecDry == InitDry /\ [][NextDry]_vars

DryRunCommands ==
    {"generate", "stage", "deploy", "undeploy", "clean", "unimport", "sync"}

\* A step of a run that was given --dry-run, its first step included.
C29_Step ==
    (run'.dry_run /\ run'.op \in DryRunCommands) =>
        /\ fs' = fs
        /\ cfg' = cfg
        /\ disk' = disk
        /\ sy'.asked = 0

\* C29: with dry_run = true, a run of generate, stage, deploy, undeploy,
\* clean, unimport or sync leaves the whole filesystem (the config file
\* included) and the persisted State as they were before the run, and sync
\* asks the chooser nothing.
C29_DryRunWritesNothing == [][C29_Step]_vars

\* A dry run of sync has returned after it met a hunk of an edited staged
\* file and asked nothing.
C29_Witness ==
    /\ run.op = "sync" /\ run.dry_run /\ run.pc = "done" /\ run.result = "ok"
    /\ \E k \in 1..Len(sy.choices) : sy.choices[k] = "Skip"
    /\ sy.asked = 0

\* A dry run of clean --orphans has met an orphan.
C29_OrphanMet ==
    /\ run.op = "clean" /\ run.dry_run /\ run.pc = "done" /\ run.succeeded > 0
    /\ run.orphans /\ ~run.generated

\* A run of unimport without --dry-run has removed the entry and its files.
UnimportDone ==
    /\ run.op = "unimport" /\ ~run.dry_run /\ run.pc = "done" /\ run.result = "ok"
    /\ run.saved > 0

(***************************************************************************)
(* import (ops/import.rs).  The files the model imports lie directly under *)
(* ~/.config, so that determine_dest_path takes its first branch and the   *)
(* config entry gets the default target.                                   *)
(***************************************************************************)
\* The directory `janus import ~/.config` walks, and what it can hold.
ImportDir == expand_tilde(P(ConfigDir, <<"a">>)).dir

Candidates == {P(ImportDir, <<s>>) : s \in Srcs}

ImportPaths ==
    AllPaths \cup Candidates
    \cup {temp_path_for(t) : t \in Candidates}
    \cup {backup_path_for(t) : t \in Candidates}

\* paths::collapse_tilde: the home directory becomes "~".
collapse_tilde(p) ==
    IF Len(p.dir) >= Len(Home) /\ SubSeq(p.dir, 1, Len(Home)) = Home
    THEN [p EXCEPT !.dir = <<"~">> \o SubSeq(p.dir, Len(Home) + 1, Len(p.dir))]
    ELSE p

\* The string State keeps for an ignored path: the collapsed path, one
\* string for each candidate.
display(p) == IF p.name[1] = "a" THEN "~/.config/a" ELSE "~/.config/b"

\* determine_dest_path for a file directly under ~/.config: the file name.
determine_dest_path(file_path) == file_path.name[1]

\* append_config_entry: a [[files]] table is pushed; the target is left out
\* when it is the default one for the src.
append_config_entry(c, src, tgt) ==
    Append(c, FileEntry(src, IF tgt = P(ConfigDir, <<src>>) THEN NoPath ELSE tgt, TRUE))

\* generate::run, stage::run and deploy::run (with force) as import_file
\* calls them, for the entries that match the one pattern; no call fails
\* but the ones the tree itself makes fail.
RECURSIVE generate_each(_, _)
generate_each(f, entries) ==
    IF entries = <<>> THEN Ok(f)
    ELSE LET e == Head(entries)
             src_path == source_path_for(e.src)
             dest_path == generated_path_for(e.src)
             r == IF ~exists(f, src_path)
                  THEN Err(f, <<Frame("Source file not found", {src_path})>>)
                  ELSE IF e.template
                  THEN preserve_mode(write(f, dest_path, Render(read(f, src_path).content),
                                           "none"), src_path, dest_path)
                  ELSE preserve_mode(copy(f, src_path, dest_path, "none"),
                                     src_path, dest_path)
             rest == generate_each(r.fs, Tail(entries))
         IN  IF r.ok THEN rest
             ELSE Err(rest.fs, Collected("Failed to generate", 1))

RECURSIVE stage_each(_, _)
stage_each(f, entries) ==
    IF entries = <<>> THEN Ok(f)
    ELSE LET e == Head(entries)
             src_path == generated_path_for(e.src)
             dest_path == staged_path_for(e.src)
             r == IF ~exists(f, src_path)
                  THEN Err(f, <<Frame("Generated file not found", {src_path})>>)
                  ELSE preserve_mode(copy(f, src_path, dest_path, "none"),
                                     src_path, dest_path)
             rest == stage_each(r.fs, Tail(entries))
         IN  IF r.ok THEN rest
             ELSE Err(rest.fs, Collected("Failed to stage", 1))

\* deploy::run with force: fail-fast, State loaded by deploy itself and
\* saved after each entry.
RECURSIVE deploy_each(_, _, _, _)
deploy_each(f, s, d, entries) ==
    IF entries = <<>> THEN [ok |-> TRUE, fs |-> f, disk |-> d, err |-> <<>>]
    ELSE LET e == Head(entries)
             tp == expand_tilde(target(e))
             sp == staged_path_for(e.src)
             tmp == temp_path_for(tp)
             stale == IF exists(f, tmp) \/ is_symlink(f, tmp)
                      THEN remove_file(f, tmp, "none") ELSE Ok(f)
             linked == with_context(symlink(stale.fs, sp, tmp, "none"),
                                    Frame("Failed to create temp symlink", {tmp}))
             r == IF ~linked.ok THEN linked
                  ELSE rename_over(linked.fs, tmp, tp, "Failed to atomically replace", "none")
             s2 == add_deployed(s, e.src, target(e))
             w == save(s2, d, "none")
         IN  IF ~exists(f, sp)
             THEN [ok |-> FALSE, fs |-> f, disk |-> d,
                   err |-> <<Frame("Staged file not found", {sp})>>]
             ELSE IF ~r.ok THEN [ok |-> FALSE, fs |-> r.fs, disk |-> d, err |-> r.err]
             ELSE deploy_each(r.fs, s2, w.disk, Tail(entries))

\* A faulty import_file: the deployment is left to the State of the nested
\* deploy run, and the handle of import::run is saved as it is.
record_imported_nested(s, src, tgt) == s

\* import_file records the deployment on the State handle of import::run,
\* which is saved over what the nested deploy run wrote.
record_imported(s, src, tgt) == add_deployed(s, src, tgt)

ImportFaults == {"copy", "config", "save"}

\* import_file: the destination must be free; a dry run returns here;
\* otherwise copy, permissions, config entry, Config::load, generate, stage,
\* deploy --force for the new src, add_deployed on the State handle of
\* import::run and save_with_recovery.
import_file(f, c, s, d, file_path, dry_run, fault) ==
    LET target_str == collapse_tilde(file_path)
        dest_relative == determine_dest_path(file_path)
        dest_path == source_path_for(dest_relative)
        out(ok, f2, c2, s2, d2, err) ==
            [ok |-> ok, fs |-> f2, cfg |-> c2, st |-> s2, disk |-> d2, err |-> err]
        copied == with_context(
                      preserve_mode(copy(f, file_path, dest_path,
                                         IF fault = "copy" THEN "clean" ELSE "none"),
                                    file_path, dest_path),
                      Frame("Failed to copy file", {file_path}))
        c1 == append_config_entry(c, dest_relative, target_str)
        entries == filter_files(c1, Patterns(<<dest_relative>>))
        g == generate_each(copied.fs, entries)
        sg == stage_each(g.fs, entries)
        dp == deploy_each(sg.fs, load(d), d, entries)
        s1 == record_imported(s, dest_relative, target_str)
        w == save(s1, dp.disk, IF fault = "save" THEN "write" ELSE "none")
    IN  IF exists(f, dest_path)
        THEN out(FALSE, f, c, s, d, <<Frame("Destination already exists", {dest_path})>>)
        ELSE IF dry_run THEN out(TRUE, f, c, s, d, <<>>)
        ELSE IF ~copied.ok THEN out(FALSE, copied.fs, c, s, d, copied.err)
        ELSE IF fault = "config"
        THEN out(FALSE, copied.fs, c, s, d, <<Frame("Failed to write config", {}),
                                              Frame("os error", {})>>)
        ELSE IF ~g.ok THEN out(FALSE, g.fs, c1, s, d, g.err)
        ELSE IF ~sg.ok THEN out(FALSE, sg.fs, c1, s, d, sg.err)
        ELSE IF ~dp.ok THEN out(FALSE, dp.fs, c1, s, dp.disk, dp.err)
        ELSE out(w.ok, dp.fs, c1, s1, w.disk, w.err)

\* import::run up to the loop: State is loaded once; the directory is
\* walked for its regular files.
ImportStart(import_all, dry) ==
    /\ CanStart
    /\ MayRun(RunDesc("import", AllFiles, import_all, dry))
    /\ \E files \in Orders({p \in Candidates : Lookup(fs, p).kind = "file"}) :
          LET r == [NewRun("import", files, FALSE, FALSE, dry) EXCEPT
                       !.import_all = import_all, !.keep = CfgTargets]
          IN  run' = IF files = <<>> THEN Finished(r, <<>>)
                     ELSE [r EXCEPT !.pc = "i_entry"]
    /\ st' = load(disk)
    /\ hist' = Started
    /\ UNCHANGED <<cfg, fs, disk, faults, sy>>

Answers == <<"Import", "Ignore", "Skip">>

\* One turn of the loop of import::run, and its return: a managed or an
\* ignored file is passed over; the user is asked unless --all was given;
\* Ignore is recorded in State and saved; Import goes on to import_file.
\* managed_targets comes from the Config the run was started with.
ImportEntry ==
    /\ run.pc = "i_entry"
    /\ IF run.i > Len(run.entries)
       THEN /\ run' = Finished(run, <<>>)
            /\ UNCHANGED <<cfg, fs, disk, st, faults>>
       ELSE LET file_path == CurEntry
                target_str == display(file_path)
                managed_targets == run.keep
            IN  IF file_path \in managed_targets \/ is_ignored(st, target_str)
                THEN /\ run' = [run EXCEPT !.i = @ + 1]
                     /\ UNCHANGED <<cfg, fs, disk, st, faults>>
                ELSE \E selection \in IF run.import_all THEN {0} ELSE {0, 1, 2},
                        fault \in FaultChoices(ImportFaults) :
                     LET asked == IF run.import_all THEN run
                                  ELSE [run EXCEPT !.answers =
                                           Append(@, Answers[selection + 1])]
                     IN  IF selection = 1
                         THEN LET s1 == add_ignored(st, target_str, "user_declined")
                                  w == save(s1, disk, IF fault = "save" THEN "write"
                                                      ELSE "none")
                              IN  /\ fault \in {"none", "save"}
                                  /\ st' = s1
                                  /\ disk' = w.disk
                                  /\ faults' = Spend(fault)
                                  /\ run' = IF w.ok THEN [asked EXCEPT !.i = @ + 1,
                                                                       !.saved = @ + 1]
                                            ELSE Finished(asked, w.err)
                                  /\ UNCHANGED <<cfg, fs>>
                         ELSE IF selection = 2
                         THEN /\ fault = "none"
                              /\ run' = [asked EXCEPT !.i = @ + 1]
                              /\ UNCHANGED <<cfg, fs, disk, st, faults>>
                         ELSE LET r == import_file(fs, cfg, st, disk, file_path,
                                                   run.dry_run, fault)
                              IN  /\ fault # "none" =>
                                        /\ ~run.dry_run
                                        /\ ~exists(fs, source_path_for(
                                                           determine_dest_path(file_path)))
                                  /\ fs' = r.fs
                                  /\ cfg' = r.cfg
                                  /\ st' = r.st
                                  /\ disk' = r.disk
                                  /\ faults' = Spend(fault)
                                  /\ run' = IF r.ok
                                            THEN [asked EXCEPT !.i = @ + 1,
                                                     !.succeeded = IF run.dry_run THEN @
                                                                   ELSE @ + 1]
                                            ELSE Finished([asked EXCEPT !.fault = fault],
                                                          r.err)
    /\ UNCHANGED <<hist, sy>>

\* The configurations import starts from: none; src a at its default
\* target, which import finds managed; src a at another target, so that the
\* file ~/.config/a meets an existing Source.
ImportConfigs ==
    { <<>>,
      << FileEntry("a", NoPath, TRUE) >>,
      << FileEntry("a", P(ConfigDir, <<"x", "conf">>), FALSE) >> }

\* The tree: the Sources of the configured srcs, and under ~/.config the
\* files the user has there.
ImportFs(c, here) ==
    [p \in ImportPaths |->
        IF p \in here THEN FileWithMode(<<p.name[1], NL>>, PrivateMode)
        ELSE IF \E i \in 1..Len(c) : p = source_path_for(c[i].src)
          THEN File(SourceText(c[CHOOSE i \in 1..Len(c) : p = source_path_for(c[i].src)].src))
        ELSE IF p = OtherPath THEN File(<<"other">>)
        ELSE Absent]

\* The state file: none yet, or one that holds an earlier Ignore.
ImportDisks ==
    { NoFile,
      StateFile(Serialize(add_ignored(DefaultState, "~/.config/b", "user_declined"))) }

InitImport ==
    /\ cfg \in ImportConfigs
    /\ \E here \in SUBSET Candidates : fs = ImportFs(cfg, here)
    /\ disk \in ImportDisks
    /\ run = IdleRun
    /\ st = DefaultState
    /\ faults = 1
    /\ \E import_all \in BOOLEAN, dry \in BOOLEAN :
          hist = [runs |-> MaxRuns, tamper |-> MaxTamper, quiet |-> TRUE,
                  script |-> <<RunDesc("import", AllFiles, import_all, dry)>>,
                  snap |-> NoSnap, edited |-> {}, prev |-> NoPrev]
    /\ sy = SyncIdle

NextImport ==
    \/ \E import_all \in BOOLEAN, dry \in BOOLEAN : ImportStart(import_all, dry)
    \/ ImportEntry

SpecImport == InitImport /\ [][NextImport]_vars

\* C30: with dry_run = true, an import run writes nothing: whatever the
\* user answers at a prompt (Import, Ignore or Skip), no file is copied
\* into the dotfiles directory, the config file is not changed, and the
\* persisted State is not changed.
C30_DryImportWritesNothing ==
    [][(run'.op = "import" /\ run'.dry_run) =>
          /\ fs' = fs
          /\ cfg' = cfg
          /\ disk' = disk]_vars

\* What holds of the dry run: the tree and the config file stay as they
\* were, and the state file changes only at an Ignore answer.
DryImportStep ==
    (run'.op = "import" /\ run'.dry_run) =>
        /\ fs' = fs
        /\ cfg' = cfg
        /\ disk' # disk =>
              /\ run'.answers # run.answers
              /\ Last(run'.answers) = "Ignore"

DryImportWritesOnIgnore == [][DryImportStep]_vars

\* An import without --dry-run has imported a file: Source, config entry,
\* symlink and DeployedEntry are there.
Imported ==
    /\ run.op = "import" /\ ~run.dry_run /\ run.pc = "done" /\ run.result = "ok"
    /\ run.succeeded > 0
    /\ \E p \in Candidates :
          /\ is_janus_symlink(fs, p, staged_path_for(determine_dest_path(p)))
          /\ is_deployed(load(disk), determine_dest_path(p))

(***************************************************************************)
(* apply (ops/apply.rs): generate::run, stage::run and deploy::run called  *)
(* one after the other with the same arguments, each call followed by `?`. *)
(* hist.script holds the calls apply has still to make.                    *)
(***************************************************************************)
\* A faulty `?`: the result of the call is dropped.
apply_continues_always(r) == r.pc = "done"

\* `?` after a call: apply goes on when the call returned Ok.
apply_continues(r) == r.pc = "done" /\ r.result = "ok"

ApplyGenerate(files, dry) ==
    /\ run.pc = "idle"
    /\ GenerateStart(files, dry)

ApplyStage(files, dry) ==
    /\ run.op = "generate"
    /\ apply_continues(run)
    /\ StageStart(files, dry)

ApplyDeploy(files, force, dry) ==
    /\ run.op = "stage"
    /\ apply_continues(run)
    /\ DeployStart(files, force, dry)

\* `janus apply`: the three calls over one selection.
Apply(files, force, dry) ==
    << RunDesc("generate", files, FALSE, dry),
       RunDesc("stage", files, FALSE, dry),
       RunDesc("deploy", files, force, dry) >>

\* The Sources are there, but for src b, which may be missing; the files
\* may have been generated and staged before; nothing is deployed, and an
\* earlier deploy may have left its temp symlink.
InitApply ==
    /\ cfg \in Configs
    /\ \E lv \in InitLevels, missing \in BOOLEAN, stale \in BOOLEAN :
          \E pre \in [{expand_tilde(target(cfg[i])) : i \in 1..Len(cfg)}
                         -> {Absent, File(<<"mine">>)}] :
             fs = [WithStale(InitFs(cfg, lv, pre), cfg, stale) EXCEPT
                      ![source_path_for("b")] = IF missing THEN Absent ELSE @]
    /\ disk = NoFile
    /\ run = IdleRun
    /\ st = DefaultState
    /\ faults = 1
    /\ \E files \in Selections, force \in BOOLEAN, dry \in BOOLEAN :
          hist = [runs |-> MaxRuns, tamper |-> MaxTamper, quiet |-> TRUE,
                  script |-> Apply(files, force, dry),
                  snap |-> NoSnap, edited |-> {}, prev |-> NoPrev]
    /\ sy = SyncIdle

NextApply ==
    \/ \E files \in Selections, dry \in BOOLEAN : ApplyGenerate(files, dry)
    \/ GenerateEntry
    \/ \E files \in Selections, dry \in BOOLEAN : ApplyStage(files, dry)
    \/ StageEntry
    \/ \E files \in Selections, force \in BOOLEAN, dry \in BOOLEAN :
          ApplyDeploy(files, force, dry)
    \/ DeployEntry
    \/ DeployStale
    \/ DeploySymlink
    \/ DeployRename
    \/ DeploySave

SpecApply == InitApply /\ [][NextApply]_vars

\* The step apply is in has returned after it failed for a file.
StepFailed ==
    /\ run.pc = "done"
    /\ run.errors > 0 \/ run.err # <<>>

\* C31: apply runs generate, then stage, then deploy over the same
\* selection and skips every later step once a step has failed: when
\* generate (or stage) has failed for a file, no further step of the run is
\* taken, so nothing is staged or deployed, the files that were generated
\* included; and stage only ever follows a generate, deploy a stage, that
\* failed for no file.
C31_ApplyStopsAfterFailure ==
    /\ [][StepFailed => (run' = run /\ fs' = fs /\ disk' = disk)]_vars
    /\ [](run.op = "stage" => hist.prev.op = "generate" /\ hist.prev.result = "ok")
    /\ [](run.op = "deploy" => hist.prev.op = "stage" /\ hist.prev.result = "ok")

\* generate has failed for one file after it generated another, with stage
\* and deploy still to come.
C31_Witness ==
    /\ run.op = "generate" /\ run.pc = "done"
    /\ run.errors > 0 /\ run.succeeded > 0
    /\ Len(hist.script) = 2
    /\ ~run.dry_run

(***************************************************************************)
(* unimport on a tree that was generated and staged, and deployed or not;  *)
(* the target of the first entry may since have been replaced by a file of *)
(* the user's.  hist.snap keeps the tree and the state file as the run     *)
(* found them.                                                             *)
(***************************************************************************)
InitUnimport ==
    /\ cfg \in Configs
    /\ \E dep \in Deployments, text \in RunSources :
          LET f == DryFs(cfg, text, 2, text, dep # "no", FALSE)
          IN  fs = IF dep = "replaced"
                   THEN [f EXCEPT ![expand_tilde(target(cfg[1]))] = File(<<"theirs">>)]
                   ELSE f
    /\ disk \in {NoFile, StateFile(Serialize(DeployedUpTo(cfg, Len(cfg))))}
    /\ disk = NoFile <=> \A i \in 1..Len(cfg) : fs[expand_tilde(target(cfg[i]))] = Absent
    /\ run = IdleRun
    /\ st = DefaultState
    /\ faults = 1
    /\ \E files \in UnimportSelections \cup {Patterns(<<"b">>)}, rm \in BOOLEAN :
          hist = [runs |-> MaxRuns, tamper |-> MaxTamper, quiet |-> TRUE,
                  script |-> <<RunDesc("unimport", files, rm, FALSE)>>,
                  snap |-> [fs |-> fs, disk |-> disk], edited |-> {}, prev |-> NoPrev]
    /\ sy = SyncIdle

NextUnimport ==
    \/ \E files \in UnimportSelections \cup {Patterns(<<"b">>)}, rm \in BOOLEAN,
          dry \in BOOLEAN : UnimportStart(files, rm, dry)
    \/ UnimportEntry

SpecUnimport == InitUnimport /\ [][NextUnimport]_vars

\* The run of unimport has returned Ok.
Unimported ==
    /\ run.op = "unimport" /\ ~run.dry_run
    /\ run.pc = "done" /\ run.result = "ok"

\* The target of e was deployed when the run started.
WasDeployed(e) ==
    is_janus_symlink(hist.snap.fs, expand_tilde(target(e)), staged_path_for(e.src))

\* What unimport removes of entry e: Source, generated and staged file and
\* the config entries with its src.
Removed(e) ==
    /\ fs[source_path_for(e.src)] = Absent
    /\ fs[generated_path_for(e.src)] = Absent
    /\ fs[staged_path_for(e.src)] = Absent
    /\ \A i \in 1..Len(cfg) : cfg[i].src # e.src

\* C32: after a successful unimport of a file, its Source, .generated/ and
\* .staged/ copies are absent, the config no longer has an entry with that
\* src, the persisted State no longer lists the src as deployed, and a
\* target that was deployed is now a regular file (remove_file = false) or
\* absent (remove_file = true).
C32_UnimportReverses ==
    Unimported =>
        \A k \in 1..Len(run.entries) :
            LET e == run.entries[k]
                tp == expand_tilde(target(e))
            IN  /\ Removed(e)
                /\ ~Persisted(disk, e.src)
                /\ WasDeployed(e) =>
                      IF run.remove_file THEN fs[tp] = Absent ELSE fs[tp].kind = "file"

\* What holds after a successful unimport: the files and the config entries
\* are gone.
UnimportRemoves ==
    Unimported => \A k \in 1..Len(run.entries) : Removed(run.entries[k])

\* What holds when no two entries share a src and every listed target was
\* still deployed: State and target are as the claim says.
UnimportUndeploys ==
    (/\ Unimported
     /\ \A i, j \in 1..Len(hist.snap.disk.text) :
           hist.snap.disk.text[i].k = hist.snap.disk.text[j].k => i = j
     /\ \A i, j \in 1..Len(run.entries) : run.entries[i].src = run.entries[j].src => i = j
     /\ \A k \in 1..Len(run.entries) :
           Persisted(hist.snap.disk, run.entries[k].src) => WasDeployed(run.entries[k]))
    => \A k \in 1..Len(run.entries) :
           LET e == run.entries[k]
               tp == expand_tilde(target(e))
           IN  /\ ~Persisted(disk, e.src)
               /\ WasDeployed(e) =>
                     IF run.remove_file THEN fs[tp] = Absent ELSE fs[tp].kind = "file"

(***************************************************************************)
(* The temporary path of deploy and of undeploy-with-copy.                 *)
(***************************************************************************)
\* `<target>.janus.tmp`: the full file name of the target with ".janus.tmp"
\* appended.
Appended(t) == [t EXCEPT !.name = @ \o <<"janus", "tmp">>]

\* The temporary artifact of the current target exists: deploy has created
\* its symlink, undeploy its copy.
TempInUse == run.pc \in {"d_rename", "u_rename"}

\* C33: the temporary artifact used by deploy and by undeploy-with-copy for
\* a target T is at the sibling path formed by appending `.janus.tmp` to
\* T's full file name, so two different targets never use the same
\* temporary path and a temporary path never coincides with another managed
\* target.
C33_TempPathAppended ==
    TempInUse =>
        /\ Lookup(fs, Appended(CurTarget)).kind =
              (IF run.pc = "d_rename" THEN "symlink" ELSE "file")
        /\ \A t \in CfgTargets :
              t # CurTarget =>
                 /\ Lookup(fs, temp_path_for(t)).kind = "absent"
                 /\ t # temp_path_for(CurTarget)

(***************************************************************************)
(* sync of a file that is not a template, after Source was edited.         *)
(***************************************************************************)
\* The op sync_file is at takes a range of Source.
AtSourceRange ==
    /\ sy.pc = "ops"
    /\ sy.k <= Len(sy.ops)
    /\ sy.ops[sy.k].tag \in {"Delete", "Replace"}

\* C34: for every (source, generated, staged) triple of a non-template
\* file, also when Source was edited to have fewer lines than Generated,
\* sync of the file completes with a result (modified, unchanged, or an
\* error value): each Delete/Replace range old_index..old_index+old_len of
\* the Generated-vs-Staged diff lies within Source's lines.
C34_SourceRangeInBounds ==
    ~sy.template =>
        /\ sy.result # "panic"
        /\ AtSourceRange =>
              sy.ops[sy.k].old_index + sy.ops[sy.k].old_len <= Len(SourceLines)

\* Whether Source line j (counted from 1) lies in a hunk that was applied.
InAppliedHunk(j) ==
    \E k \in 1..Len(sy.choices) :
        /\ sy.choices[k] = "Apply"
        /\ sy.ops[k].old_index < j
        /\ j <= sy.ops[k].old_index + sy.ops[k].old_len

\* The Source lines outside the applied hunks, from line j on.
RECURSIVE KeptFrom(_)
KeptFrom(j) ==
    IF j > Len(BeforeLines) THEN <<>>
    ELSE (IF InAppliedHunk(j) THEN <<>> ELSE <<BeforeLines[j]>>) \o KeptFrom(j + 1)

\* Whether the lines of a occur in b, in this order.
RECURSIVE IsSubsequence(_, _)
IsSubsequence(a, b) ==
    IF a = <<>> THEN TRUE
    ELSE IF b = <<>> THEN FALSE
    ELSE IF Head(a) = Head(b) THEN IsSubsequence(Tail(a), Tail(b))
    ELSE IsSubsequence(a, Tail(b))

\* C35: for a non-template file whose Source has more lines than
\* Generated, a sync that applies a hunk does not drop Source lines: every
\* Source line outside the applied hunks, the lines beyond Generated's
\* length included, is still present in the rewritten Source.
C35_SourceLinesKept ==
    (/\ sy.pc = "done" /\ sy.result = "modified" /\ ~sy.template
     /\ Len(BeforeLines) > Len(GeneratedLines))
    => IsSubsequence(KeptFrom(1), split_lines_inclusive(sy.written))

\* Entry i of the configuration is deployed in the filesystem: its target
\* is a symlink to `.staged/<src>`.
LiveLink(i) ==
    is_janus_symlink(fs, expand_tilde(target(cfg[i])), staged_path_for(cfg[i].src))

\* The persisted State has a DeployedEntry with the src and the target of
\* entry i.
Tracked(i) ==
    \E k \in 1..Len(load(disk).deployed) :
        /\ load(disk).deployed[k].src = cfg[i].src
        /\ load(disk).deployed[k].target = target(cfg[i])

\* A deploy or undeploy run has ended, and no call has failed and nothing
\* was changed from outside so far.
EndedUndisturbed ==
    /\ run.op \in {"deploy", "undeploy"}
    /\ run.pc = "done"
    /\ ~run.dry_run
    /\ faults = MaxFaults
    /\ hist.tamper = 0

\* C36: with no I/O failure and no external change, every target that is
\* a symlink to `.staged/<src>` has a DeployedEntry with that src and that
\* target in the persisted State, also when two entries share a src; and
\* undeploy of all files leaves no configured target as a Janus symlink.
C36_LiveLinksTracked ==
    EndedUndisturbed =>
        /\ \A i \in 1..Len(cfg) : LiveLink(i) => Tracked(i)
        /\ (/\ run.op = "undeploy" /\ run.result = "ok"
            /\ Len(run.entries) = Len(cfg))
           => \A i \in 1..Len(cfg) : ~LiveLink(i)

\* The same, for configurations in which no two entries share a src.
LiveLinksTrackedDistinct ==
    (\A i, j \in 1..Len(cfg) : cfg[i].src = cfg[j].src => i = j)
    => C36_LiveLinksTracked

\* A deploy of two entries with one src has ended with both targets linked.
BothLinkedOneSrc ==
    /\ EndedUndisturbed /\ run.op = "deploy" /\ run.result = "ok"
    /\ Len(run.entries) = 2
    /\ cfg[1].src = cfg[2].src
    /\ LiveLink(1) /\ LiveLink(2) /\ ~Tracked(1)

\* An undeploy of all files has returned Ok and left a Janus symlink.
UndeployLeavesLink ==
    /\ EndedUndisturbed /\ run.op = "undeploy" /\ run.result = "ok"
    /\ Len(run.entries) = Len(cfg)
    /\ \E i \in 1..Len(cfg) : LiveLink(i)

\* The step in which the backup copy of deploy_symlink fails.
BackupFails ==
    /\ run.op = "deploy" /\ run.pc = "d_entry"
    /\ run'.pc = "done" /\ run'.err # <<>>
    /\ Head(run'.err).msg = "Failed to backup file"

\* deploy_symlink is past the backup of a target that had to be backed up.
PastBackup ==
    /\ run.op = "deploy" /\ run.pc \in {"d_stale", "d_symlink", "d_rename"}
    /\ BackupCase

\* C37: with force = false and a pre-existing target that is not Janus's
\* symlink, deploy goes on to replace the target only when the target's
\* content is at the backup path; when the backup copy fails, the deploy of
\* the file fails with the target unchanged, no temp symlink created and no
\* DeployedEntry added.
C37_BackupBeforeReplace ==
    /\ [][BackupFails =>
            /\ run'.result = "err"
            /\ fs'[CurTarget] = fs[CurTarget]
            /\ fs'[temp_path_for(CurTarget)] = fs[temp_path_for(CurTarget)]
            /\ st' = st
            /\ disk' = disk]_vars
    /\ [](PastBackup =>
            fs[ExpectedBackup(CurTarget)] = File(ContentThrough(fs, run.pre)))

\* The backup copy of the user's file has failed half way: the run has
\* ended with the error and the user's file is still the target.
C37_Witness ==
    /\ run.op = "deploy" /\ run.pc = "done" /\ run.at = "d_entry"
    /\ run.err # <<>> /\ Head(run.err).msg = "Failed to backup file"
    /\ ~run.force
    /\ run.pre = File(<<"mine">>)
    /\ fs[CurTarget] = File(<<"mine">>)
    /\ fs[ExpectedBackup(CurTarget)] = File(Partial)

\* sync_file has returned the error of the chooser to sync::run.
ChooserFailed ==
    /\ run.op = "sync" /\ run.pc = "y_file"
    /\ sy.pc = "done"
    /\ \E k \in 1..Len(sy.choices) : sy.choices[k] = "Failed"

\* C38: when the chooser returns an error at a hunk of a file, sync_file
\* returns it at once, the file's Source is byte-identical to what
\* sync_file read (the decisions taken for earlier hunks of the file are not
\* written), the file is recorded as failed, the run goes on to the next
\* file, and sync::run, at the end of its loop, returns an error when a file
\* was recorded as failed.
C38_ChooserErrorKeepsSource ==
    /\ []((\E k \in 1..Len(sy.choices) : sy.choices[k] = "Failed")
            => sy.pc = "done" /\ sy.result = "error")
    /\ [](ChooserFailed => read(fs, CurSource).content = sy.before)
    /\ [][ChooserFailed =>
            /\ fs' = fs
            /\ run'.errors = run.errors + 1
            /\ run'.modified = run.modified
            /\ run'.pc = "y_entry" /\ run'.i = run.i + 1]_vars
    /\ [](run.op = "sync" /\ run.pc = "done" /\ run.at = "y_entry"
            /\ run.errors > 0
            => run.result = "err")

\* The chooser has failed at the second hunk of a file after the answer
\* Apply at the first: Source is as it was read.
C38_Witness ==
    /\ ChooserFailed
    /\ \E k \in 1..Len(sy.choices) : sy.choices[k] = "Apply"
    /\ sy.choices[Len(sy.choices)] = "Failed"
    /\ sy.output # <<>>
    /\ read(fs, CurSource).content = sy.before

\* Every entry of the state file before the step is in the state file after
\* it.
EntriesKept ==
    /\ \A k \in 1..Len(load(disk).ignored) :
          \E n \in 1..Len(load(disk').ignored) :
             load(disk').ignored[n] = load(disk).ignored[k]
    /\ \A k \in 1..Len(load(disk).deployed) :
          \E n \in 1..Len(load(disk').deployed) :
             load(disk').deployed[n] = load(disk).deployed[k]

\* The step in which import answers a prompt (or --all stands for the
\* answer Import) for the current file and does not fail.
ImportAnswered(answer) ==
    /\ run.op = "import" /\ run.pc = "i_entry" /\ run.i <= Len(run.entries)
    /\ ~run.dry_run
    /\ run'.i = run.i + 1
    /\ IF run.import_all
       THEN answer = "Import" /\ run'.succeeded = run.succeeded + 1
       ELSE run'.answers = Append(run.answers, answer)

\* C39: an import run that ignores some paths and imports others leaves
\* every ignored path and every imported src in the persisted State: no
\* step of the run drops an entry of the state file, an Ignore answer puts
\* the path into it, an import puts the src with its target into it, and the
\* State handle of import::run and the state file hold the same entries
\* between two files.
C39_ImportKeepsEntries ==
    /\ [][run'.op = "import" /\ ~run'.dry_run => EntriesKept]_vars
    /\ [][ImportAnswered("Ignore")
            => is_ignored(load(disk'), display(CurEntry))]_vars
    /\ [][ImportAnswered("Import")
            => \E n \in 1..Len(load(disk').deployed) :
                  /\ load(disk').deployed[n].src = determine_dest_path(CurEntry)
                  /\ load(disk').deployed[n].target = collapse_tilde(CurEntry)]_vars
    /\ [](run.op = "import" /\ ~run.dry_run /\ run.result # "err"
            => load(disk) = st)

\* An import run has ended in which one file was ignored and the other one
\* imported after it: the state file lists both.
C39_Witness ==
    /\ run.op = "import" /\ run.pc = "done" /\ run.result = "ok"
    /\ ~run.dry_run
    /\ run.answers = <<"Ignore", "Import">>
    /\ Len(load(disk).ignored) = 1
    /\ Len(load(disk).deployed) = 1
    /\ is_ignored(load(disk), display(run.entries[1]))
    /\ is_deployed(load(disk), determine_dest_path(run.entries[2]))

\* The step in which resolve returns a value for the current secret entry.
Resolves ==
    /\ run.op = "generate" /\ run.pc = "t_resolve"
    /\ run.k <= Len(run.secret_entries)
    /\ run'.k = run.k + 1

\* C40: the secret cache never serves one (engine, reference) pair the
\* value of another: whenever resolve returns a value for a secret entry,
\* it is the value the engine gives for that entry's engine and reference,
\* whatever was resolved before it in the run.
C40_CacheServesOwnPair ==
    [][Resolves =>
          LET entry == run.secret_entries[run.k]
              own == engine_resolve(entry.engine, entry.reference, "none")
          IN  /\ own.ok
              /\ run'.secrets[entry.name] = own.value]_vars

\* The same, for the entries whose engine is "1password".
CacheServesOwnPairKnownEngine ==
    [][(Resolves /\ run.secret_entries[run.k].engine = "1password") =>
          LET entry == run.secret_entries[run.k]
              own == engine_resolve(entry.engine, entry.reference, "none")
          IN  /\ own.ok
              /\ run'.secrets[entry.name] = own.value]_vars

====
